---- MODULE Spec2Model ----
(***************************************************************************)
(* A model of the conflict engine of SyncNotes: ConflictDetector,          *)
(* ConflictResolver and ConflictManager                                    *)
(* (brave-sync-notes/client/src/utils/conflict).                           *)
(*                                                                         *)
(* JavaScript values are modelled as follows.                              *)
(*   - a string is a record [chars |-> <<code, ...>>] of UTF-16 code units *)
(*   - null / undefined is the record Null; a number that may be absent    *)
(*     is <<>> or <<n>>                                                    *)
(*   - an object is a record with the object's fields                      *)
(*   - a promise that has settled is an outcome record:                    *)
(*       [ok |-> TRUE, value |-> v]  or  [ok |-> FALSE, error |-> name]    *)
(***************************************************************************)
EXTENDS Integers, Sequences, FiniteSets, TLC

VARIABLES
    conflictWindow,   \* ConflictDetector.conflictWindow
    detLocal,         \* the `local` argument of a detectConflict call
    detRemote,        \* the `remote` argument of a detectConflict call
    detResult,        \* what that call returned (NotRun before it ran)
    conflictQueue,    \* ConflictResolver.conflictQueue
    resolving,        \* ConflictResolver.resolving
    now,              \* the clock Date.now() reads
    enqueued,         \* how many items enqueueConflict has created so far
    ra,               \* the resolveAll call suspended at its await, if any
    ret,              \* what the last step handed back to its caller
    batch,            \* the queue at the start of resolveAll (SpecAwaited only)
    autoResolveStrategy,  \* ConflictManager.autoResolveStrategy
    onConflictDetected,   \* TRUE when a ConflictManager.onConflictDetected hook is set
    onConflictResolved,   \* TRUE when a ConflictManager.onConflictResolved hook is set
    mgr,              \* the ConflictManager call suspended at its await, if any
    defaultStrategy,  \* ConflictResolver.defaultStrategy
    storage,          \* StorageManager.storage
    storageType,      \* StorageManager.storageType
    isInitialized,    \* StorageManager.isInitialized
    inFlight,         \* the StorageManager calls suspended at an await
    db,               \* the object stores of the IndexedDBStorage database
    targetDb,         \* the object stores of the target of migrateData
    idb,              \* the IndexedDBStorage calls suspended at an await
    mig,              \* the migrateData call copying the stores, if any
    reported          \* history: the queue items whose resolution reached a caller

detVars == <<conflictWindow, detLocal, detRemote, detResult>>
resVars == <<conflictQueue, resolving, now, enqueued, ra, ret, batch>>
mgrVars == <<autoResolveStrategy, onConflictDetected, onConflictResolved, mgr>>
stoVars == <<storage, storageType, isInitialized, inFlight>>
dbVars == <<db, targetDb, idb, mig>>
vars == <<detVars, resVars, mgrVars, defaultStrategy, stoVars, dbVars, reported>>

-----------------------------------------------------------------------------
(* JavaScript values *)

Null == [null |-> TRUE]
Str(codes) == [chars |-> codes]
Ok(v) == [ok |-> TRUE, value |-> v]
Err(name) == [ok |-> FALSE, error |-> name]

\* an optional number (a field or option that may be undefined): <<>> or <<n>>
Absent == <<>>
Just(n) == <<n>>

\* x || d on an optional number: undefined and 0 are falsy
OrDefault(x, d) == IF x = Absent THEN d ELSE IF x[1] = 0 THEN d ELSE x[1]

-----------------------------------------------------------------------------
(* 32-bit integer arithmetic of hashContent *)

MinInt32 == -2147483647 - 1
MaxInt32 == 2147483647

\* hash << 5 : the low 27 bits move up, the result is read as a signed int32
Shl5(h) ==
    LET low == h % 134217728
    IN IF low >= 67108864 THEN (low - 134217728) * 32 ELSE low * 32

\* ToInt32(a - b) for int32 a, b
WrapSub32(a, b) ==
    IF b > 0 /\ a < MinInt32 + b THEN ((a + MaxInt32) - b) + MaxInt32 + 2
    ELSE IF b < 0 /\ a > MaxInt32 + b THEN ((a - MaxInt32) - b) - MaxInt32 - 2
    ELSE a - b

\* ToInt32(a + c) for an int32 a and a code unit c in 0..65535
WrapAdd32(a, c) ==
    IF a > MaxInt32 - c THEN ((a - MaxInt32) + c) - MaxInt32 - 2 ELSE a + c

\* one round of the loop body: hash = ((hash << 5) - hash) + char; hash = hash & hash
HashStep(hash, char) == WrapAdd32(WrapSub32(Shl5(hash), hash), char)

RECURSIVE HashLoop(_, _, _)
HashLoop(codes, i, hash) ==
    IF i > Len(codes) THEN hash
    ELSE HashLoop(codes, i + 1, HashStep(hash, codes[i]))

\* the code unit of one base-36 digit: '0'..'9', 'a'..'z'
Digit36(d) == IF d < 10 THEN 48 + d ELSE 97 + (d - 10)

\* digits of a number n <= 0, most significant first
RECURSIVE Digits36(_)
Digits36(n) ==
    LET d == (36 - (n % 36)) % 36
        q == (n + d) \div 36
    IN IF q = 0 THEN <<Digit36(d)>> ELSE Digits36(q) \o <<Digit36(d)>>

\* Number.prototype.toString(36) on an int32
toString36(n) ==
    IF n < 0 THEN Str(<<45>> \o Digits36(n)) ELSE Str(Digits36(0 - n))

hashContent(content) == toString36(HashLoop(content.chars, 1, 0))

-----------------------------------------------------------------------------
(* ConflictDetector.detectConflict *)

Abs(x) == IF x < 0 THEN 0 - x ELSE x

ConflictInfo(type, local, remote) ==
    [type |-> type, localVersion |-> local, remoteVersion |-> remote]

\* the window test with <= in place of <
detectConflict_InclusiveWindow(local, remote, window) ==
    IF local.hash = remote.hash \/ local.content = remote.content THEN Null
    ELSE IF local.version = remote.version
        THEN ConflictInfo("concurrent_edit", local, remote)
    ELSE IF Abs(local.timestamp - remote.timestamp) <= window
        THEN ConflictInfo("concurrent_edit", local, remote)
    ELSE IF local.version < remote.version /\ local.hash # remote.hash
        THEN ConflictInfo("offline_divergence", local, remote)
    ELSE Null

detectConflict(local, remote, window) ==
    IF local.hash = remote.hash \/ local.content = remote.content THEN Null
    ELSE IF local.version = remote.version
        THEN ConflictInfo("concurrent_edit", local, remote)
    ELSE IF Abs(local.timestamp - remote.timestamp) < window
        THEN ConflictInfo("concurrent_edit", local, remote)
    ELSE IF local.version < remote.version /\ local.hash # remote.hash
        THEN ConflictInfo("offline_divergence", local, remote)
    ELSE Null

\* constructor: this.conflictWindow = options.conflictWindow || 5000
DefaultConflictWindow == 5000
NewConflictWindow(option) == OrDefault(option, DefaultConflictWindow)

-----------------------------------------------------------------------------
(* ConflictDetector.threeWayMerge *)

\* String.prototype.split('\n') on code units: the lines, at least one;
\* SplitFrom gives the lines of the text that starts at index i
RECURSIVE SplitFrom(_, _)
SplitFrom(codes, i) ==
    LET breaks == {j \in i..Len(codes) : codes[j] = 10}
    IN IF breaks = {} THEN <<SubSeq(codes, i, Len(codes))>>
       ELSE LET j == CHOOSE b \in breaks : \A c \in breaks : b <= c
            IN <<SubSeq(codes, i, j - 1)>> \o SplitFrom(codes, j + 1)

split(codes) == SplitFrom(codes, 1)

\* Array.prototype.join('\n')
RECURSIVE join(_)
join(lines) ==
    IF Len(lines) = 0 THEN <<>>
    ELSE IF Len(lines) = 1 THEN lines[1]
    ELSE lines[1] \o <<10>> \o join(Tail(lines))

\* lines[idx] || ''  (idx counts from 0)
LineAt(lines, idx) == IF idx < Len(lines) THEN lines[idx + 1] ELSE <<>>

\* the inner while loops: the first index from idx on that is past the end
\* or holds baseLine
RECURSIVE CollectEnd(_, _, _)
CollectEnd(lines, idx, baseLine) ==
    IF idx < Len(lines) /\ lines[idx + 1] # baseLine
    THEN CollectEnd(lines, idx + 1, baseLine)
    ELSE idx

LocalMarker == <<60, 60, 60, 60, 60, 60, 60, 32, 76, 79, 67, 65, 76>>
MiddleMarker == <<61, 61, 61, 61, 61, 61, 61>>
RemoteMarker == <<62, 62, 62, 62, 62, 62, 62, 32, 82, 69, 77, 79, 84, 69>>

\* the branch of a pure remote change pushing the base line
MergeStep_RemoteChangeKeepsBase(st, baseLines, localLines, remoteLines) ==
    LET baseLine == LineAt(baseLines, st.baseIdx)
        localLine == LineAt(localLines, st.localIdx)
        remoteLine == LineAt(remoteLines, st.remoteIdx)
        advance(line) ==
            [st EXCEPT !.merged = Append(@, line),
                       !.baseIdx = @ + 1, !.localIdx = @ + 1, !.remoteIdx = @ + 1]
    IN IF baseLine = localLine /\ baseLine = remoteLine THEN advance(baseLine)
       ELSE IF baseLine = localLine /\ baseLine # remoteLine THEN advance(baseLine)
       ELSE IF baseLine = remoteLine /\ baseLine # localLine THEN advance(localLine)
       ELSE
         LET conflictStart == Len(st.merged)
             localEnd == CollectEnd(localLines, st.localIdx, baseLine)
             remoteEnd == CollectEnd(remoteLines, st.remoteIdx, baseLine)
             localConflictLines == SubSeq(localLines, st.localIdx + 1, localEnd)
             remoteConflictLines == SubSeq(remoteLines, st.remoteIdx + 1, remoteEnd)
             merged == st.merged \o <<LocalMarker>> \o localConflictLines
                         \o <<MiddleMarker>> \o remoteConflictLines \o <<RemoteMarker>>
         IN [baseIdx |-> st.baseIdx + 1,
             localIdx |-> localEnd,
             remoteIdx |-> remoteEnd,
             merged |-> merged,
             conflicts |-> Append(st.conflicts,
                 [startLine |-> conflictStart,
                  endLine |-> Len(merged) - 1,
                  localContent |-> Str(join(localConflictLines)),
                  remoteContent |-> Str(join(remoteConflictLines))])]

\* a first branch that takes a line local and remote agree on
MergeStep_AcceptsSameChange(st, baseLines, localLines, remoteLines) ==
    LET baseLine == LineAt(baseLines, st.baseIdx)
        localLine == LineAt(localLines, st.localIdx)
        remoteLine == LineAt(remoteLines, st.remoteIdx)
        advance(line) ==
            [st EXCEPT !.merged = Append(@, line),
                       !.baseIdx = @ + 1, !.localIdx = @ + 1, !.remoteIdx = @ + 1]
    IN IF localLine = remoteLine THEN advance(localLine)
       ELSE IF baseLine = localLine /\ baseLine # remoteLine THEN advance(remoteLine)
       ELSE IF baseLine = remoteLine /\ baseLine # localLine THEN advance(localLine)
       ELSE
         LET conflictStart == Len(st.merged)
             localEnd == CollectEnd(localLines, st.localIdx, baseLine)
             remoteEnd == CollectEnd(remoteLines, st.remoteIdx, baseLine)
             localConflictLines == SubSeq(localLines, st.localIdx + 1, localEnd)
             remoteConflictLines == SubSeq(remoteLines, st.remoteIdx + 1, remoteEnd)
             merged == st.merged \o <<LocalMarker>> \o localConflictLines
                         \o <<MiddleMarker>> \o remoteConflictLines \o <<RemoteMarker>>
         IN [baseIdx |-> st.baseIdx + 1,
             localIdx |-> localEnd,
             remoteIdx |-> remoteEnd,
             merged |-> merged,
             conflicts |-> Append(st.conflicts,
                 [startLine |-> conflictStart,
                  endLine |-> Len(merged) - 1,
                  localContent |-> Str(join(localConflictLines)),
                  remoteContent |-> Str(join(remoteConflictLines))])]

\* a first line that is taken without moving past it
MergeStep_TakesFirstLineInPlace(st, baseLines, localLines, remoteLines) ==
    LET baseLine == LineAt(baseLines, st.baseIdx)
        localLine == LineAt(localLines, st.localIdx)
        remoteLine == LineAt(remoteLines, st.remoteIdx)
        advance(line) ==
            IF st.merged = <<>>
            THEN [st EXCEPT !.merged = Append(@, line)]
            ELSE [st EXCEPT !.merged = Append(@, line),
                            !.baseIdx = @ + 1, !.localIdx = @ + 1, !.remoteIdx = @ + 1]
    IN IF baseLine = localLine /\ baseLine = remoteLine THEN advance(baseLine)
       ELSE IF baseLine = localLine /\ baseLine # remoteLine THEN advance(remoteLine)
       ELSE IF baseLine = remoteLine /\ baseLine # localLine THEN advance(localLine)
       ELSE
         LET conflictStart == Len(st.merged)
             localEnd == CollectEnd(localLines, st.localIdx, baseLine)
             remoteEnd == CollectEnd(remoteLines, st.remoteIdx, baseLine)
             localConflictLines == SubSeq(localLines, st.localIdx + 1, localEnd)
             remoteConflictLines == SubSeq(remoteLines, st.remoteIdx + 1, remoteEnd)
             merged == st.merged \o <<LocalMarker>> \o localConflictLines
                         \o <<MiddleMarker>> \o remoteConflictLines \o <<RemoteMarker>>
         IN [baseIdx |-> st.baseIdx + 1,
             localIdx |-> localEnd,
             remoteIdx |-> remoteEnd,
             merged |-> merged,
             conflicts |-> Append(st.conflicts,
                 [startLine |-> conflictStart,
                  endLine |-> Len(merged) - 1,
                  localContent |-> Str(join(localConflictLines)),
                  remoteContent |-> Str(join(remoteConflictLines))])]

\* one iteration of the while loop of _mergeLines
MergeStep(st, baseLines, localLines, remoteLines) ==
    LET baseLine == LineAt(baseLines, st.baseIdx)
        localLine == LineAt(localLines, st.localIdx)
        remoteLine == LineAt(remoteLines, st.remoteIdx)
        advance(line) ==
            [st EXCEPT !.merged = Append(@, line),
                       !.baseIdx = @ + 1, !.localIdx = @ + 1, !.remoteIdx = @ + 1]
    IN IF baseLine = localLine /\ baseLine = remoteLine THEN advance(baseLine)
       ELSE IF baseLine = localLine /\ baseLine # remoteLine THEN advance(remoteLine)
       ELSE IF baseLine = remoteLine /\ baseLine # localLine THEN advance(localLine)
       ELSE
         LET conflictStart == Len(st.merged)
             localEnd == CollectEnd(localLines, st.localIdx, baseLine)
             remoteEnd == CollectEnd(remoteLines, st.remoteIdx, baseLine)
             localConflictLines == SubSeq(localLines, st.localIdx + 1, localEnd)
             remoteConflictLines == SubSeq(remoteLines, st.remoteIdx + 1, remoteEnd)
             merged == st.merged \o <<LocalMarker>> \o localConflictLines
                         \o <<MiddleMarker>> \o remoteConflictLines \o <<RemoteMarker>>
         IN [baseIdx |-> st.baseIdx + 1,
             localIdx |-> localEnd,
             remoteIdx |-> remoteEnd,
             merged |-> merged,
             conflicts |-> Append(st.conflicts,
                 [startLine |-> conflictStart,
                  endLine |-> Len(merged) - 1,
                  localContent |-> Str(join(localConflictLines)),
                  remoteContent |-> Str(join(remoteConflictLines))])]

MergeMore(st, baseLines, localLines, remoteLines) ==
    \/ st.baseIdx < Len(baseLines)
    \/ st.localIdx < Len(localLines)
    \/ st.remoteIdx < Len(remoteLines)

RECURSIVE MergeLoop(_, _, _, _)
MergeLoop(st, baseLines, localLines, remoteLines) ==
    IF MergeMore(st, baseLines, localLines, remoteLines)
    THEN MergeLoop(MergeStep(st, baseLines, localLines, remoteLines),
                   baseLines, localLines, remoteLines)
    ELSE st

\* the states of the loop before each of its first `passes` iterations, and
\* the state after the last of them
RECURSIVE MergeScan(_, _, _, _, _)
MergeScan(st, baseLines, localLines, remoteLines, passes) ==
    IF passes > 0 /\ MergeMore(st, baseLines, localLines, remoteLines)
    THEN <<st>> \o MergeScan(MergeStep(st, baseLines, localLines, remoteLines),
                             baseLines, localLines, remoteLines, passes - 1)
    ELSE <<st>>

mergeLines(baseLines, localLines, remoteLines) ==
    LET st == MergeLoop([baseIdx |-> 0, localIdx |-> 0, remoteIdx |-> 0,
                         merged |-> <<>>, conflicts |-> <<>>],
                        baseLines, localLines, remoteLines)
    IN [lines |-> st.merged, conflicts |-> st.conflicts]

\* the test base === local giving the local text
threeWayMerge_KeepsLocal(base, local, remote) ==
    IF local = remote THEN [success |-> TRUE, merged |-> local]
    ELSE IF base = local THEN [success |-> TRUE, merged |-> local]
    ELSE IF base = remote THEN [success |-> TRUE, merged |-> local]
    ELSE
      LET result == mergeLines(split(base.chars), split(local.chars), split(remote.chars))
      IN IF Len(result.conflicts) = 0
         THEN [success |-> TRUE, merged |-> Str(join(result.lines))]
         ELSE [success |-> FALSE, merged |-> Str(join(result.lines)),
               conflicts |-> result.conflicts]

\* the conflicts list given with a successful merge as well
threeWayMerge_AlwaysListsConflicts(base, local, remote) ==
    IF local = remote THEN [success |-> TRUE, merged |-> local]
    ELSE IF base = local THEN [success |-> TRUE, merged |-> remote]
    ELSE IF base = remote THEN [success |-> TRUE, merged |-> local]
    ELSE
      LET result == mergeLines(split(base.chars), split(local.chars), split(remote.chars))
      IN [success |-> Len(result.conflicts) = 0, merged |-> Str(join(result.lines)),
          conflicts |-> result.conflicts]

threeWayMerge(base, local, remote) ==
    IF local = remote THEN [success |-> TRUE, merged |-> local]
    ELSE IF base = local THEN [success |-> TRUE, merged |-> remote]
    ELSE IF base = remote THEN [success |-> TRUE, merged |-> local]
    ELSE
      LET result == mergeLines(split(base.chars), split(local.chars), split(remote.chars))
      IN IF Len(result.conflicts) = 0
         THEN [success |-> TRUE, merged |-> Str(join(result.lines))]
         ELSE [success |-> FALSE, merged |-> Str(join(result.lines)),
               conflicts |-> result.conflicts]

-----------------------------------------------------------------------------
(* ConflictDetector.autoResolve *)

\* "\n\n--- MERGED FROM REMOTE ---\n\n"
MergeSeparator ==
    <<10, 10, 45, 45, 45, 32, 77, 69, 82, 71, 69, 68, 32, 70, 82, 79, 77, 32,
      82, 69, 77, 79, 84, 69, 32, 45, 45, 45, 10, 10>>

mergeBoth(local, remote) == Str(local.chars \o MergeSeparator \o remote.chars)

\* 'last-write-wins' keeping the local side on equal timestamps
autoResolve_TieKeepsLocal(conflict, strategy) ==
    LET l == conflict.localVersion
        r == conflict.remoteVersion
    IN IF strategy = "last-write-wins" THEN
            IF l = Null \/ r = Null THEN Err("TypeError")
            ELSE Ok(IF l.timestamp >= r.timestamp THEN l.content ELSE r.content)
       ELSE IF strategy = "first-write-wins" THEN
            IF l = Null \/ r = Null THEN Err("TypeError")
            ELSE Ok(IF l.timestamp < r.timestamp THEN l.content ELSE r.content)
       ELSE IF strategy = "local-wins" THEN
            IF l = Null THEN Err("TypeError") ELSE Ok(l.content)
       ELSE IF strategy = "remote-wins" THEN
            IF r = Null THEN Err("TypeError") ELSE Ok(r.content)
       ELSE IF strategy = "merge-both" THEN
            IF l = Null \/ r = Null THEN Err("TypeError")
            ELSE Ok(mergeBoth(l.content, r.content))
       ELSE Err("UnknownStrategy")

\* 'first-write-wins' picking as 'last-write-wins' does
autoResolve_FirstAsLast(conflict, strategy) ==
    LET l == conflict.localVersion
        r == conflict.remoteVersion
    IN IF strategy \in {"last-write-wins", "first-write-wins"} THEN
            IF l = Null \/ r = Null THEN Err("TypeError")
            ELSE Ok(IF l.timestamp > r.timestamp THEN l.content ELSE r.content)
       ELSE IF strategy = "local-wins" THEN
            IF l = Null THEN Err("TypeError") ELSE Ok(l.content)
       ELSE IF strategy = "remote-wins" THEN
            IF r = Null THEN Err("TypeError") ELSE Ok(r.content)
       ELSE IF strategy = "merge-both" THEN
            IF l = Null \/ r = Null THEN Err("TypeError")
            ELSE Ok(mergeBoth(l.content, r.content))
       ELSE Err("UnknownStrategy")

\* Strategy names, conflict types and error names are strings the code only
\* compares; they are TLA+ strings. Reading a field of a null version throws
\* a TypeError.
autoResolve(conflict, strategy) ==
    LET l == conflict.localVersion
        r == conflict.remoteVersion
    IN IF strategy = "last-write-wins" THEN
            IF l = Null \/ r = Null THEN Err("TypeError")
            ELSE Ok(IF l.timestamp > r.timestamp THEN l.content ELSE r.content)
       ELSE IF strategy = "first-write-wins" THEN
            IF l = Null \/ r = Null THEN Err("TypeError")
            ELSE Ok(IF l.timestamp < r.timestamp THEN l.content ELSE r.content)
       ELSE IF strategy = "local-wins" THEN
            IF l = Null THEN Err("TypeError") ELSE Ok(l.content)
       ELSE IF strategy = "remote-wins" THEN
            IF r = Null THEN Err("TypeError") ELSE Ok(r.content)
       ELSE IF strategy = "merge-both" THEN
            IF l = Null \/ r = Null THEN Err("TypeError")
            ELSE Ok(mergeBoth(l.content, r.content))
       ELSE Err("UnknownStrategy")

-----------------------------------------------------------------------------
(* ConflictResolver.resolve, resolveManually *)

\* conflict.commonAncestor is set and truthy
HasAncestor(conflict) ==
    "commonAncestor" \in DOMAIN conflict /\ conflict.commonAncestor # Null

\* 'auto-merge' handing back the marked-up text when the merge fails
resolve_ReturnsMarkedText(conflict, strategy) ==
    IF strategy = "manual" THEN Err("ManualResolutionRequired")
    ELSE IF strategy = "auto-merge" THEN
        IF HasAncestor(conflict) THEN
            IF conflict.localVersion = Null \/ conflict.remoteVersion = Null
            THEN Err("TypeError")
            ELSE Ok(threeWayMerge(conflict.commonAncestor.content,
                                  conflict.localVersion.content,
                                  conflict.remoteVersion.content).merged)
        ELSE autoResolve(conflict, "last-write-wins")
    ELSE autoResolve(conflict, strategy)

\* 'manual' handled as 'last-write-wins'
resolve_ManualResolves(conflict, strategy) ==
    autoResolve(conflict, IF strategy \in {"manual", "auto-merge"}
                          THEN "last-write-wins" ELSE strategy)

\* the promise resolve(conflict, strategy) returns; strategy is the argument
\* after the default (this.defaultStrategy) has been applied
resolve(conflict, strategy) ==
    IF strategy = "manual" THEN Err("ManualResolutionRequired")
    ELSE IF strategy = "auto-merge" THEN
        IF HasAncestor(conflict) THEN
            IF conflict.localVersion = Null \/ conflict.remoteVersion = Null
            THEN Err("TypeError")
            ELSE LET result == threeWayMerge(conflict.commonAncestor.content,
                                             conflict.localVersion.content,
                                             conflict.remoteVersion.content)
                 IN IF result.success THEN Ok(result.merged)
                    ELSE autoResolve(conflict, "last-write-wins")
        ELSE autoResolve(conflict, "last-write-wins")
    ELSE autoResolve(conflict, strategy)

\* the promise resolveManually(conflict, resolvedContent) returns; the empty
\* string and null are falsy
resolveManually(conflict, resolvedContent) ==
    IF resolvedContent = Null \/ resolvedContent = Str(<<>>)
    THEN Err("ContentRequired")
    ELSE Ok(resolvedContent)

-----------------------------------------------------------------------------
(* Inputs of the detector specification *)

Aa == Str(<<65, 97>>)
BB == Str(<<66, 66>>)
A  == Str(<<65>>)

Contents == {Aa, BB, A}
Versions == {0, 1, 2}
Timestamps == {1000, 2000, 6000}
Devices == {Str(<<49>>), Str(<<50>>)}
WindowOptions == {Absent, Just(0), Just(1000)}

VersionedContents ==
    [content : Contents, version : Versions, timestamp : Timestamps,
     deviceId : Devices, hash : {hashContent(c) : c \in Contents}]

NotRun == [notRun |-> TRUE]

-----------------------------------------------------------------------------
(* Specification of the detector: one detectConflict call on any inputs *)

\* null: no strategy configured (options.autoResolveStrategy || null)
NoStrategy == "<null>"

\* storageType null
NoStorageType == "<null>"

\* new ConflictManager(options) with neither hooks nor a strategy in options
\* an IndexedDB database after onupgradeneeded: four empty object stores
EmptyDb == [notebooks |-> {}, notes |-> {}, history |-> {}, pendingOps |-> {}]

\* no call of the backend is under way
InitIndexedDB ==
    /\ db = EmptyDb
    /\ targetDb = EmptyDb
    /\ idb = <<>>
    /\ mig = [pc |-> "idle"]

\* StorageManager.constructor
InitStorage ==
    /\ storage = Null
    /\ storageType = NoStorageType
    /\ isInitialized = FALSE
    /\ inFlight = <<>>

\* no resolveAll running, nothing handed to a caller or to the hook yet
NothingReported == [included |-> <<>>, log |-> <<>>]

InitManager ==
    /\ autoResolveStrategy = NoStrategy
    /\ onConflictDetected = FALSE
    /\ onConflictResolved = FALSE
    /\ mgr = [pc |-> "idle"]
    /\ reported = NothingReported

\* the strategy argument, or option, left out
UndefinedArg == "<undefined>"
\* resolveAll(strategy = 'last-write-wins')
DefaultArg(arg, default) == IF arg = UndefinedArg THEN default ELSE arg

\* constructor: this.defaultStrategy = options.defaultStrategy || 'manual'
NewDefaultStrategy(option) ==
    IF option = UndefinedArg \/ option = "" THEN "manual" ELSE option

\* new ConflictResolver(options)
InitResolver ==
    /\ defaultStrategy = NewDefaultStrategy(UndefinedArg)
    /\ conflictQueue = <<>>
    /\ resolving = FALSE
    /\ now = 1000
    /\ enqueued = 0
    /\ ra = [pc |-> "idle"]
    /\ ret = [op |-> "new"]
    /\ batch = <<>>

InitDetect ==
    /\ conflictWindow \in {NewConflictWindow(o) : o \in WindowOptions}
    /\ detLocal \in VersionedContents
    /\ detRemote \in VersionedContents
    /\ detResult = NotRun
    /\ InitResolver
    /\ InitManager
    /\ InitStorage
    /\ InitIndexedDB

DetectConflict ==
    /\ detResult = NotRun
    /\ detResult' = detectConflict(detLocal, detRemote, conflictWindow)
    /\ UNCHANGED <<conflictWindow, detLocal, detRemote, resVars, mgrVars, defaultStrategy,
                   stoVars, dbVars, reported>>

NextDetect == DetectConflict

SpecDetect == InitDetect /\ [][NextDetect]_vars

-----------------------------------------------------------------------------
(* ConflictResolver: the queue *)

MaxEnqueue == 3   \* enqueueConflict calls in a run

\* the values Date.now() may return; a reading is never earlier than the last
Instants == {1000, 1001}
Readings(last) == {t \in Instants : t >= last}

\* Math.random() as the base-36 digits after "0." of its toString(36)
RandomValues ==
    { <<18>>,
      <<1, 2, 3, 4, 5, 6, 7, 8, 9, 10>>,
      <<1, 2, 3, 4, 5, 6, 7, 8, 9, 11>> }

\* Math.random().toString(36).substr(2, 9): at most nine digits
RandomSuffix(random) ==
    Str([i \in 1..(IF Len(random) < 9 THEN Len(random) ELSE 9) |-> Digit36(random[i])])

\* `conflict_${Date.now()}_${suffix}`: the time is printed in decimal digits
\* and the suffix holds no '_', so two ids are the same string exactly when
\* the times and the suffixes are the same
ConflictId(time, random) == [time |-> time, suffix |-> RandomSuffix(random)]

\* conflictQueue.unshift in place of push
enqueueConflict_Unshift(queue, conflict, t1, t2, random, sn) ==
    <<[conflict |-> conflict, timestamp |-> t1,
       id |-> ConflictId(t2, random), sn |-> sn]>> \o queue

\* enqueueConflict: t1 and t2 are its two readings of the clock; sn tells the
\* pushed objects apart (each call creates a new object)
enqueueConflict(queue, conflict, t1, t2, random, sn) ==
    Append(queue, [conflict |-> conflict, timestamp |-> t1,
                   id |-> ConflictId(t2, random), sn |-> sn])

getNextConflict(queue) == IF Len(queue) > 0 THEN queue[1] ELSE Null

\* a removeConflict that takes the head for an id no item has
removeConflict_ShiftsUnknown(queue, conflictId) ==
    IF \A i \in 1..Len(queue) : queue[i].id # conflictId
    THEN SubSeq(queue, 2, Len(queue))
    ELSE SelectSeq(queue, LAMBDA item : item.id # conflictId)

removeConflict(queue, conflictId) ==
    SelectSeq(queue, LAMBDA item : item.id # conflictId)

\* Array.prototype.shift
shift(queue) == IF Len(queue) = 0 THEN queue ELSE Tail(queue)

\* a resolveAll call suspended at `await this.resolve(item.conflict, strategy)`
Suspended(strategy, item, results) ==
    [pc |-> "await", strategy |-> strategy, item |-> item,
     promise |-> resolve(item.conflict, strategy), results |-> results]

Idle == [pc |-> "idle"]

-----------------------------------------------------------------------------
(* Inputs of the resolver specification *)

Version(content, version, timestamp, device) ==
    [content |-> content, version |-> version, timestamp |-> timestamp,
     deviceId |-> Str(<<device>>), hash |-> hashContent(content)]

\* local older than remote, as createConflict() of the resolver's tests
GoodConflict ==
    ConflictInfo("concurrent_edit", Version(A, 1, 1000, 49), Version(BB, 1, 2000, 50))
\* both versions are missing, as badConflict of the resolver's tests
BadConflict == ConflictInfo("concurrent_edit", Null, Null)

ResolverConflicts == {GoodConflict, BadConflict}

StrategyArgs == {UndefinedArg, "local-wins", "manual"}

Ids(queue) == {queue[i].id : i \in 1..Len(queue)}
UnknownId == ConflictId(0, <<>>)

-----------------------------------------------------------------------------
(* ConflictResolver: the calls *)

EnqueueConflict ==
    /\ enqueued < MaxEnqueue
    /\ \E conflict \in ResolverConflicts, random \in RandomValues, t1 \in Readings(now) :
        \E t2 \in Readings(t1) :
            /\ conflictQueue' = enqueueConflict(conflictQueue, conflict, t1, t2,
                                                random, enqueued + 1)
            /\ now' = t2
    /\ enqueued' = enqueued + 1
    /\ ret' = [op |-> "enqueueConflict"]
    /\ UNCHANGED <<detVars, reported, dbVars, stoVars, defaultStrategy, mgrVars, resolving, ra, batch>>

GetNextConflict ==
    /\ ret' = [op |-> "getNextConflict", value |-> getNextConflict(conflictQueue)]
    /\ UNCHANGED <<detVars, reported, dbVars, stoVars, defaultStrategy, mgrVars, conflictQueue, resolving, now, enqueued, ra, batch>>

RemoveConflict ==
    /\ \E conflictId \in Ids(conflictQueue) \cup {UnknownId} :
        /\ conflictQueue' = removeConflict(conflictQueue, conflictId)
        /\ ret' = [op |-> "removeConflict", id |-> conflictId]
    /\ UNCHANGED <<detVars, reported, dbVars, stoVars, defaultStrategy, mgrVars, resolving, now, enqueued, ra, batch>>

ClearQueue ==
    /\ conflictQueue' = <<>>
    /\ ret' = [op |-> "clearQueue"]
    /\ UNCHANGED <<detVars, reported, dbVars, stoVars, defaultStrategy, mgrVars, resolving, now, enqueued, ra, batch>>

\* the rejected call also running the `finally` block
ResolveAllRejected_ResetsFlag ==
    /\ resolving
    /\ resolving' = FALSE
    /\ ret' = [op |-> "resolveAll", outcome |-> Err("AlreadyResolving")]
    /\ UNCHANGED <<detVars, reported, dbVars, stoVars, defaultStrategy, mgrVars, conflictQueue, now, enqueued, ra, batch>>

\* resolveAll while another resolveAll has not finished: it throws at once
ResolveAllRejected ==
    /\ resolving
    /\ ret' = [op |-> "resolveAll", outcome |-> Err("AlreadyResolving")]
    /\ UNCHANGED <<detVars, reported, dbVars, stoVars, defaultStrategy, mgrVars, conflictQueue, resolving, now, enqueued, ra, batch>>

\* resolveAll on an empty queue: the loop is not entered, `finally` resets
\* the flag and the call returns without having awaited
ResolveAllEmptyCall ==
    /\ ~resolving
    /\ conflictQueue = <<>>
    /\ \E arg \in StrategyArgs :
        ret' = [op |-> "resolveAll", outcome |-> Ok(<<>>),
                strategy |-> DefaultArg(arg, "last-write-wins")]
    /\ UNCHANGED <<detVars, reported, dbVars, stoVars, defaultStrategy, mgrVars, conflictQueue, resolving, now, enqueued, ra>>

\* resolveAll up to its first await
ResolveAllStartCall ==
    /\ ~resolving
    /\ conflictQueue # <<>>
    /\ resolving' = TRUE
    /\ \E arg \in StrategyArgs :
        ra' = Suspended(DefaultArg(arg, "last-write-wins"), conflictQueue[1], <<>>)
    /\ ret' = [op |-> "resolveAll", suspended |-> TRUE]
    /\ UNCHANGED <<detVars, reported, dbVars, stoVars, defaultStrategy, mgrVars, conflictQueue, now, enqueued>>

ResolveAllEmpty == ResolveAllEmptyCall /\ UNCHANGED batch
ResolveAllStart == ResolveAllStartCall /\ UNCHANGED batch

\* the body of the loop after the await: what it does to the queue and to
\* the results
AfterAwaitQueue(frame, queue) ==
    IF frame.promise.ok THEN removeConflict(queue, frame.item.id) ELSE shift(queue)

AfterAwaitResults(frame) ==
    IF frame.promise.ok
    THEN Append(frame.results, [id |-> frame.item.id, resolved |-> frame.promise.value])
    ELSE frame.results

\* resolveAll resumes after an await, and runs to the next await
ResolveAllNext ==
    /\ ra.pc = "await"
    /\ LET queue == AfterAwaitQueue(ra, conflictQueue)
       IN /\ queue # <<>>
          /\ conflictQueue' = queue
          /\ ra' = Suspended(ra.strategy, queue[1], AfterAwaitResults(ra))
    /\ ret' = [op |-> "resolveAll.resume", suspended |-> TRUE]
    /\ UNCHANGED <<detVars, reported, dbVars, stoVars, defaultStrategy, mgrVars, resolving, now, enqueued, batch>>

\* the returning call leaving the busy flag up
ResolveAllReturn_KeepsFlag ==
    /\ ra.pc = "await"
    /\ LET queue == AfterAwaitQueue(ra, conflictQueue)
       IN /\ queue = <<>>
          /\ conflictQueue' = queue
    /\ ra' = Idle
    /\ ret' = [op |-> "resolveAll.resume", outcome |-> Ok(AfterAwaitResults(ra)),
               strategy |-> ra.strategy]
    /\ UNCHANGED <<detVars, reported, dbVars, stoVars, defaultStrategy, mgrVars, resolving, now, enqueued, batch>>

\* resolveAll resumes after an await, finds the queue empty and returns
ResolveAllReturn ==
    /\ ra.pc = "await"
    /\ LET queue == AfterAwaitQueue(ra, conflictQueue)
       IN /\ queue = <<>>
          /\ conflictQueue' = queue
    /\ resolving' = FALSE
    /\ ra' = Idle
    /\ ret' = [op |-> "resolveAll.resume", outcome |-> Ok(AfterAwaitResults(ra)),
               strategy |-> ra.strategy]
    /\ UNCHANGED <<detVars, reported, dbVars, stoVars, defaultStrategy, mgrVars, now, enqueued, batch>>

InitDetectIdle ==
    /\ conflictWindow = DefaultConflictWindow
    /\ detLocal = Null
    /\ detRemote = Null
    /\ detResult = NotRun

Init == InitDetectIdle /\ InitResolver /\ InitManager /\ InitStorage /\ InitIndexedDB

\* calls on one resolver in any order, also while resolveAll is suspended
Next ==
    \/ EnqueueConflict
    \/ GetNextConflict
    \/ RemoveConflict
    \/ ClearQueue
    \/ ResolveAllRejected
    \/ ResolveAllEmpty
    \/ ResolveAllStart
    \/ ResolveAllNext
    \/ ResolveAllReturn

Spec == Init /\ [][Next]_vars

\* a settled promise's continuation is run by the event loop: a suspended
\* resolveAll is resumed, whatever other calls are made meanwhile
SpecLive == Spec /\ WF_vars(ResolveAllNext \/ ResolveAllReturn)

-----------------------------------------------------------------------------
(* The resolver used by a caller that awaits each call before the next:     *)
(* no call is made while resolveAll is suspended.  `batch` records the      *)
(* queue a resolveAll call found when it started.                           *)

Awaited(call) == ra.pc = "idle" /\ call

NextAwaited ==
    \/ Awaited(EnqueueConflict)
    \/ Awaited(GetNextConflict)
    \/ Awaited(RemoveConflict)
    \/ Awaited(ClearQueue)
    \/ Awaited(ResolveAllEmptyCall /\ batch' = conflictQueue)
    \/ Awaited(ResolveAllStartCall /\ batch' = conflictQueue)
    \/ ResolveAllNext
    \/ ResolveAllReturn

SpecAwaited == Init /\ [][NextAwaited]_vars

-----------------------------------------------------------------------------
(* ConflictManager *)

MaxPending == 2   \* conflicts a manager run puts on the queue

Local == Str(<<108, 111, 99, 97, 108>>)          \* 'local'
Remote == Str(<<114, 101, 109, 111, 116, 101>>)  \* 'remote'

\* x || d on a string that may be undefined: undefined and '' are falsy
OrDefaultStr(x, d) == IF x = Null \/ x = Str(<<>>) THEN d ELSE x

\* the argument objects localData / remoteData of checkAndHandle
SyncData(content, version, timestamp, deviceId) ==
    [content |-> content, version |-> version, timestamp |-> timestamp,
     deviceId |-> deviceId]

\* the <<localData, remoteData>> pairs checkAndHandle is called with
SyncPairs ==
    { \* the same content on both sides
      <<SyncData(A, Just(1), Just(1000), Str(<<49>>)),
        SyncData(A, Just(2), Just(7000), Str(<<50>>))>>,
      \* different contents with the same fingerprint
      <<SyncData(Aa, Just(1), Just(1000), Str(<<49>>)),
        SyncData(BB, Just(1), Just(1000), Str(<<50>>))>>,
      \* local has the higher version, long after the remote
      <<SyncData(A, Just(2), Just(7000), Str(<<49>>)),
        SyncData(BB, Just(1), Just(1000), Str(<<50>>))>>,
      \* local gives only its content: version 0, timestamp from the clock
      <<SyncData(A, Absent, Absent, Null),
        SyncData(BB, Absent, Just(1000), Null)>>,
      \* local has the lower version, long before the remote
      <<SyncData(A, Just(1), Just(1000), Str(<<49>>)),
        SyncData(BB, Just(2), Just(7000), Str(<<50>>))>> }

\* `data.timestamp || Date.now()` reads the clock only for a falsy timestamp
ClockReads(timestamp, last) ==
    IF OrDefault(timestamp, 0) = 0 THEN Readings(last) ELSE {last}

\* a versioned content whose hash is taken of the device id
BuildVersion_HashesDevice(data, device, t) ==
    [content |-> data.content,
     version |-> OrDefault(data.version, 0),
     timestamp |-> OrDefault(data.timestamp, t),
     deviceId |-> OrDefaultStr(data.deviceId, device),
     hash |-> hashContent(OrDefaultStr(data.deviceId, device))]

\* the versioned content checkAndHandle builds from one argument
BuildVersion(data, device, t) ==
    [content |-> data.content,
     version |-> OrDefault(data.version, 0),
     timestamp |-> OrDefault(data.timestamp, t),
     deviceId |-> OrDefaultStr(data.deviceId, device),
     hash |-> hashContent(data.content)]

\* the `local` and `remote` a checkAndHandle call may build when the clock
\* last read `last`, with the clock's last reading afterwards
Calls(last) ==
    UNION { UNION { { [local |-> BuildVersion(pair[1], Local, t1),
                       remote |-> BuildVersion(pair[2], Remote, t2),
                       now |-> t2]
                      : t2 \in ClockReads(pair[2].timestamp, t1) }
                    : t1 \in ClockReads(pair[1].timestamp, last) }
            : pair \in SyncPairs }

\* `this.autoResolveStrategy && this.autoResolveStrategy !== 'manual'`
AutoResolves(strategy) ==
    strategy # NoStrategy /\ strategy # "" /\ strategy # "manual"

\* the calls a hook receives: none when the hook is not set
DetectedHook(registered, conflict) ==
    IF registered
    THEN <<[hook |-> "onConflictDetected", args |-> <<conflict>>]>>
    ELSE <<>>

ResolvedHook(registered, conflict, resolved) ==
    IF registered
    THEN <<[hook |-> "onConflictResolved", args |-> <<conflict, resolved>>]>>
    ELSE <<>>

\* what checkAndHandle returns
HandleResult(hasConflict, resolved, conflict) ==
    [hasConflict |-> hasConflict, resolved |-> resolved, conflict |-> conflict]

\* the local content returned in place of the remote
NoConflictResult_KeepsLocal(local, remote) ==
    HandleResult(FALSE, local.content, Null)

NoConflictResult(local, remote) == HandleResult(FALSE, remote.content, Null)

ManagerStrategies == {NoStrategy, "manual", "last-write-wins", "no-such-strategy"}

\* what resolveManually may be given as content: a text, the empty string,
\* or nothing
ManualContents == {Aa, Str(<<>>), Null}

\* conflictQueue.find(item => item.id === conflictId)
Find(queue, conflictId) ==
    IF \E i \in 1..Len(queue) : queue[i].id = conflictId
    THEN queue[CHOOSE i \in 1..Len(queue) :
                  /\ queue[i].id = conflictId
                  /\ \A j \in 1..(i - 1) : queue[j].id # conflictId]
    ELSE Null

(* ConflictManager: the calls.  The caller awaits each call before making  *)
(* the next, so a call starts only when no call is suspended.              *)

SetAutoResolveStrategy ==
    /\ mgr.pc = "idle"
    /\ \E strategy \in ManagerStrategies : autoResolveStrategy' = strategy
    /\ ret' = [op |-> "setAutoResolveStrategy"]
    /\ UNCHANGED <<detVars, reported, dbVars, stoVars, defaultStrategy, conflictQueue, resolving, now, enqueued, ra, batch,
                   onConflictDetected, onConflictResolved, mgr>>

\* clearConflicts: this.resolver.clearQueue()
ClearConflicts == mgr.pc = "idle" /\ ClearQueue

\* checkAndHandle finds no conflict and returns
CheckAndHandleNoConflict ==
    /\ mgr.pc = "idle"
    /\ \E call \in Calls(now) :
        /\ detectConflict(call.local, call.remote, conflictWindow) = Null
        /\ now' = call.now
        /\ ret' = [op |-> "checkAndHandle", local |-> call.local,
                   remote |-> call.remote, hooks |-> <<>>,
                   outcome |-> Ok(NoConflictResult(call.local, call.remote))]
    /\ UNCHANGED <<detVars, reported, dbVars, stoVars, defaultStrategy, conflictQueue, resolving, enqueued, ra, batch, mgrVars>>

\* checkAndHandle finds a conflict and no strategy to try: it enqueues the
\* conflict and returns
CheckAndHandleEnqueue ==
    /\ mgr.pc = "idle"
    /\ enqueued < MaxPending
    /\ ~AutoResolves(autoResolveStrategy)
    /\ \E call \in Calls(now), random \in RandomValues :
        \E t1 \in Readings(call.now) :
          \E t2 \in Readings(t1) :
            LET conflict == detectConflict(call.local, call.remote, conflictWindow)
            IN /\ conflict # Null
               /\ conflictQueue' = enqueueConflict(conflictQueue, conflict, t1, t2,
                                                   random, enqueued + 1)
               /\ now' = t2
               /\ ret' = [op |-> "checkAndHandle", local |-> call.local,
                          remote |-> call.remote,
                          hooks |-> DetectedHook(onConflictDetected, conflict),
                          outcome |-> Ok(HandleResult(TRUE, Null, conflict))]
    /\ enqueued' = enqueued + 1
    /\ UNCHANGED <<detVars, reported, dbVars, stoVars, defaultStrategy, resolving, ra, batch, mgrVars>>

\* checkAndHandle finds a conflict and a strategy to try: it runs up to
\* `await this.resolver.resolve(conflict, this.autoResolveStrategy)`
CheckAndHandleStart ==
    /\ mgr.pc = "idle"
    /\ enqueued < MaxPending
    /\ AutoResolves(autoResolveStrategy)
    /\ \E call \in Calls(now) :
        LET conflict == detectConflict(call.local, call.remote, conflictWindow)
            hooks == DetectedHook(onConflictDetected, conflict)
        IN /\ conflict # Null
           /\ now' = call.now
           /\ mgr' = [pc |-> "await", call |-> "checkAndHandle",
                      local |-> call.local, remote |-> call.remote,
                      conflict |-> conflict, hooks |-> hooks,
                      promise |-> resolve(conflict, autoResolveStrategy)]
           /\ ret' = [op |-> "checkAndHandle", local |-> call.local,
                      remote |-> call.remote, hooks |-> hooks, suspended |-> TRUE]
    /\ UNCHANGED <<detVars, reported, dbVars, stoVars, defaultStrategy, conflictQueue, resolving, enqueued, ra, batch,
                   autoResolveStrategy, onConflictDetected, onConflictResolved>>

\* the resolved conflict put on the queue all the same
CheckAndHandleResolved_AlsoEnqueues ==
    /\ mgr.pc = "await"
    /\ mgr.call = "checkAndHandle"
    /\ mgr.promise.ok
    /\ mgr' = Idle
    /\ conflictQueue' = enqueueConflict(conflictQueue, mgr.conflict, now, now,
                                        <<18>>, enqueued + 1)
    /\ enqueued' = enqueued + 1
    /\ ret' = [op |-> "checkAndHandle.resume", local |-> mgr.local,
               remote |-> mgr.remote,
               hooks |-> mgr.hooks \o ResolvedHook(onConflictResolved, mgr.conflict,
                                                   mgr.promise.value),
               outcome |-> Ok(HandleResult(TRUE, mgr.promise.value, mgr.conflict))]
    /\ UNCHANGED <<detVars, reported, dbVars, stoVars, defaultStrategy, resolving, now, ra, batch,
                   autoResolveStrategy, onConflictDetected, onConflictResolved>>

\* checkAndHandle resumes with the resolved content and returns it
CheckAndHandleResolved ==
    /\ mgr.pc = "await"
    /\ mgr.call = "checkAndHandle"
    /\ mgr.promise.ok
    /\ mgr' = Idle
    /\ ret' = [op |-> "checkAndHandle.resume", local |-> mgr.local,
               remote |-> mgr.remote,
               hooks |-> mgr.hooks \o ResolvedHook(onConflictResolved, mgr.conflict,
                                                   mgr.promise.value),
               outcome |-> Ok(HandleResult(TRUE, mgr.promise.value, mgr.conflict))]
    /\ UNCHANGED <<detVars, reported, dbVars, stoVars, defaultStrategy, conflictQueue, resolving, now, enqueued, ra, batch,
                   autoResolveStrategy, onConflictDetected, onConflictResolved>>

\* the fall-through returning without the enqueue
CheckAndHandleFallback_NoEnqueue ==
    /\ mgr.pc = "await"
    /\ mgr.call = "checkAndHandle"
    /\ ~mgr.promise.ok
    /\ mgr' = Idle
    /\ ret' = [op |-> "checkAndHandle.resume", local |-> mgr.local,
               remote |-> mgr.remote, hooks |-> mgr.hooks,
               outcome |-> Ok(HandleResult(TRUE, Null, mgr.conflict))]
    /\ UNCHANGED <<detVars, reported, dbVars, stoVars, defaultStrategy, conflictQueue, resolving, now, enqueued, ra, batch,
                   autoResolveStrategy, onConflictDetected, onConflictResolved>>

\* checkAndHandle resumes with resolve's error: the catch logs it, the
\* conflict is enqueued and the call returns
CheckAndHandleFallback ==
    /\ mgr.pc = "await"
    /\ mgr.call = "checkAndHandle"
    /\ ~mgr.promise.ok
    /\ mgr' = Idle
    /\ \E random \in RandomValues, t1 \in Readings(now) :
        \E t2 \in Readings(t1) :
            /\ conflictQueue' = enqueueConflict(conflictQueue, mgr.conflict, t1, t2,
                                                random, enqueued + 1)
            /\ now' = t2
    /\ enqueued' = enqueued + 1
    /\ ret' = [op |-> "checkAndHandle.resume", local |-> mgr.local,
               remote |-> mgr.remote, hooks |-> mgr.hooks,
               outcome |-> Ok(HandleResult(TRUE, Null, mgr.conflict))]
    /\ UNCHANGED <<detVars, reported, dbVars, stoVars, defaultStrategy, resolving, ra, batch,
                   autoResolveStrategy, onConflictDetected, onConflictResolved>>

\* ConflictManager.resolveManually with an id no queued item has: it throws
ManagerResolveManuallyNotFound ==
    /\ mgr.pc = "idle"
    /\ \E conflictId \in Ids(conflictQueue) \cup {UnknownId},
          resolvedContent \in ManualContents :
        /\ Find(conflictQueue, conflictId) = Null
        /\ ret' = [op |-> "resolveManually", id |-> conflictId,
                   content |-> resolvedContent, hooks |-> <<>>,
                   outcome |-> Err("ConflictNotFound")]
    /\ UNCHANGED <<detVars, reported, dbVars, stoVars, defaultStrategy, conflictQueue, resolving, now, enqueued, ra, batch, mgrVars>>

\* ConflictManager.resolveManually up to
\* `await this.resolver.resolveManually(conflictItem.conflict, resolvedContent)`
ManagerResolveManuallyStart ==
    /\ mgr.pc = "idle"
    /\ \E conflictId \in Ids(conflictQueue) \cup {UnknownId},
          resolvedContent \in ManualContents :
        LET conflictItem == Find(conflictQueue, conflictId)
        IN /\ conflictItem # Null
           /\ mgr' = [pc |-> "await", call |-> "resolveManually",
                      id |-> conflictId, content |-> resolvedContent,
                      item |-> conflictItem,
                      promise |-> resolveManually(conflictItem.conflict,
                                                  resolvedContent)]
           /\ ret' = [op |-> "resolveManually", id |-> conflictId,
                      content |-> resolvedContent, hooks |-> <<>>,
                      suspended |-> TRUE]
    /\ UNCHANGED <<detVars, reported, dbVars, stoVars, defaultStrategy, conflictQueue, resolving, now, enqueued, ra, batch,
                   autoResolveStrategy, onConflictDetected, onConflictResolved>>

\* the rejected call taking the item out of the queue all the same
ManagerResolveManuallyRejected_Removes ==
    /\ mgr.pc = "await"
    /\ mgr.call = "resolveManually"
    /\ ~mgr.promise.ok
    /\ mgr' = Idle
    /\ conflictQueue' = removeConflict(conflictQueue, mgr.id)
    /\ ret' = [op |-> "resolveManually.resume", id |-> mgr.id,
               content |-> mgr.content, item |-> mgr.item, hooks |-> <<>>,
               outcome |-> mgr.promise]
    /\ UNCHANGED <<detVars, reported, dbVars, stoVars, defaultStrategy, resolving, now, enqueued, ra, batch,
                   autoResolveStrategy, onConflictDetected, onConflictResolved>>

\* ConflictManager.resolveManually resumes with the resolver's error and
\* throws it on
ManagerResolveManuallyRejected ==
    /\ mgr.pc = "await"
    /\ mgr.call = "resolveManually"
    /\ ~mgr.promise.ok
    /\ mgr' = Idle
    /\ ret' = [op |-> "resolveManually.resume", id |-> mgr.id,
               content |-> mgr.content, item |-> mgr.item, hooks |-> <<>>,
               outcome |-> mgr.promise]
    /\ UNCHANGED <<detVars, reported, dbVars, stoVars, defaultStrategy, conflictQueue, resolving, now, enqueued, ra, batch,
                   autoResolveStrategy, onConflictDetected, onConflictResolved>>

\* ConflictManager.resolveManually resumes with the content: the hook, the
\* removal from the queue, the return
ManagerResolveManuallyReturnCall ==
    /\ mgr.pc = "await"
    /\ mgr.call = "resolveManually"
    /\ mgr.promise.ok
    /\ mgr' = Idle
    /\ conflictQueue' = removeConflict(conflictQueue, mgr.id)
    /\ ret' = [op |-> "resolveManually.resume", id |-> mgr.id,
               content |-> mgr.content, item |-> mgr.item,
               hooks |-> ResolvedHook(onConflictResolved, mgr.item.conflict,
                                      mgr.promise.value),
               outcome |-> Ok(mgr.promise.value)]
    /\ UNCHANGED <<detVars, dbVars, stoVars, defaultStrategy, resolving, now, enqueued, ra, batch,
                   autoResolveStrategy, onConflictDetected, onConflictResolved>>

ManagerResolveManuallyReturn == ManagerResolveManuallyReturnCall /\ UNCHANGED reported

\* new ConflictManager(options): the hooks may be given in options
InitManagerHooks ==
    /\ autoResolveStrategy = NoStrategy
    /\ onConflictDetected \in BOOLEAN
    /\ onConflictResolved \in BOOLEAN
    /\ mgr = Idle
    /\ reported = NothingReported

InitManagerSpec ==
    InitDetectIdle /\ InitResolver /\ InitManagerHooks /\ InitStorage
    /\ InitIndexedDB

NextManager ==
    \/ SetAutoResolveStrategy
    \/ ClearConflicts
    \/ CheckAndHandleNoConflict
    \/ CheckAndHandleEnqueue
    \/ CheckAndHandleStart
    \/ CheckAndHandleResolved
    \/ CheckAndHandleFallback
    \/ ManagerResolveManuallyNotFound
    \/ ManagerResolveManuallyStart
    \/ ManagerResolveManuallyRejected
    \/ ManagerResolveManuallyReturn

SpecManager == InitManagerSpec /\ [][NextManager]_vars

-----------------------------------------------------------------------------
(* ConflictManager.resolveAllConflicts beside the other calls *)

\* the log with one more report per queue item, in order
Logged(log, items, by) ==
    log \o [i \in 1..Len(items) |-> [sn |-> items[i], by |-> by]]

\* results.forEach(result => this.onConflictResolved(null, result.resolved))
ResolvedHooks(registered, results) ==
    IF registered
    THEN [i \in 1..Len(results) |->
             [hook |-> "onConflictResolved", args |-> <<Null, results[i].resolved>>]]
    ELSE <<>>

\* the queue items behind the results of the running resolveAll
Included(frame, included) ==
    IF frame.promise.ok THEN Append(included, frame.item.sn) ELSE included

\* resolveAllConflicts while a resolveAll has not finished: resolveAll
\* throws and the call rejects
ResolveAllConflictsRejected ==
    /\ resolving
    /\ ret' = [op |-> "resolveAllConflicts", hooks |-> <<>>,
               outcome |-> Err("AlreadyResolving")]
    /\ UNCHANGED <<detVars, reported, dbVars, stoVars, defaultStrategy, mgrVars,
                   conflictQueue, resolving, now, enqueued, ra, batch>>

\* resolveAllConflicts on an empty queue: no result, no hook, 0
ResolveAllConflictsEmpty ==
    /\ ~resolving
    /\ conflictQueue = <<>>
    /\ ret' = [op |-> "resolveAllConflicts", hooks |-> <<>>, outcome |-> Ok(0)]
    /\ UNCHANGED <<detVars, reported, dbVars, stoVars, defaultStrategy, mgrVars,
                   conflictQueue, resolving, now, enqueued, ra, batch>>

\* resolveAllConflicts up to the first await of resolveAll
ResolveAllConflictsStart ==
    /\ ~resolving
    /\ conflictQueue # <<>>
    /\ resolving' = TRUE
    /\ \E arg \in StrategyArgs :
        ra' = Suspended(DefaultArg(arg, "last-write-wins"), conflictQueue[1], <<>>)
    /\ reported' = [reported EXCEPT !.included = <<>>]
    /\ ret' = [op |-> "resolveAllConflicts", hooks |-> <<>>, suspended |-> TRUE]
    /\ UNCHANGED <<detVars, dbVars, stoVars, defaultStrategy, mgrVars,
                   conflictQueue, now, enqueued, batch>>

\* resolveAll resumes after an await, and runs to the next await
ResolveAllConflictsNext ==
    /\ ra.pc = "await"
    /\ LET queue == AfterAwaitQueue(ra, conflictQueue)
       IN /\ queue # <<>>
          /\ conflictQueue' = queue
          /\ ra' = Suspended(ra.strategy, queue[1], AfterAwaitResults(ra))
    /\ reported' = [reported EXCEPT !.included = Included(ra, @)]
    /\ ret' = [op |-> "resolveAllConflicts.resume", hooks |-> <<>>,
               suspended |-> TRUE]
    /\ UNCHANGED <<detVars, dbVars, stoVars, defaultStrategy, mgrVars,
                   resolving, now, enqueued, batch>>

\* resolveAll resumes after its last await and returns its results;
\* resolveAllConflicts hands each to the hook and returns their number
ResolveAllConflictsReturn ==
    /\ ra.pc = "await"
    /\ LET queue == AfterAwaitQueue(ra, conflictQueue)
           results == AfterAwaitResults(ra)
       IN /\ queue = <<>>
          /\ conflictQueue' = queue
          /\ ret' = [op |-> "resolveAllConflicts.resume",
                     hooks |-> ResolvedHooks(onConflictResolved, results),
                     results |-> results,
                     outcome |-> Ok(Len(results))]
    /\ resolving' = FALSE
    /\ ra' = Idle
    /\ reported' = [included |-> <<>>,
                    log |-> Logged(reported.log, Included(ra, reported.included),
                                   "resolveAllConflicts")]
    /\ UNCHANGED <<detVars, dbVars, stoVars, defaultStrategy, mgrVars,
                   now, enqueued, batch>>

\* resolveManually returns the resolved content of its item
ManagerResolveManuallyReports ==
    /\ ManagerResolveManuallyReturnCall
    /\ reported' = [reported EXCEPT
                       !.log = Logged(@, <<mgr.item.sn>>, "resolveManually")]

NextResolveOnce ==
    \/ CheckAndHandleEnqueue
    \/ ManagerResolveManuallyStart
    \/ ManagerResolveManuallyRejected
    \/ ManagerResolveManuallyReports
    \/ ResolveAllConflictsRejected
    \/ ResolveAllConflictsEmpty
    \/ ResolveAllConflictsStart
    \/ ResolveAllConflictsNext
    \/ ResolveAllConflictsReturn

SpecResolveOnce == InitManagerSpec /\ [][NextResolveOnce]_vars

-----------------------------------------------------------------------------
(* One call of resolve or autoResolve on a new resolver, or on one that    *)
(* holds a queued conflict                                                 *)

\* the contents of the versions of a conflict
ResolveTexts ==
    {Str(<<120>>), Str(<<121>>), Str(<<120, 10, 121>>), Str(<<122, 10, 121>>),
     Str(<<120, 10, 122>>)}

TimestampPairs == {<<1000, 2000>>, <<2000, 1000>>, <<1000, 1000>>}

\* conflicts as the detector reports them: no commonAncestor
PlainConflicts ==
    {ConflictInfo("concurrent_edit", Version(l, 1, t[1], 49), Version(r, 1, t[2], 50))
       : l \in ResolveTexts, r \in ResolveTexts, t \in TimestampPairs}

\* conflicts a caller has given a commonAncestor
AncestorConflicts ==
    {[type |-> c.type, localVersion |-> c.localVersion,
      remoteVersion |-> c.remoteVersion, commonAncestor |-> Version(a, 0, 500, 49)]
       : c \in PlainConflicts, a \in ResolveTexts}

ResolveConflicts == PlainConflicts \cup AncestorConflicts \cup {BadConflict}

AutoStrategyArgs ==
    {UndefinedArg, "last-write-wins", "first-write-wins", "local-wins",
     "remote-wins", "merge-both", "no-such-strategy"}

ResolveStrategyArgs == AutoStrategyArgs \cup {"manual", "auto-merge"}

DefaultStrategyOptions == {UndefinedArg, "manual", "last-write-wins"}

\* resolve(conflict, strategy = this.defaultStrategy)
Resolve ==
    /\ ret.op = "new"
    /\ \E conflict \in ResolveConflicts, arg \in ResolveStrategyArgs :
        ret' = [op |-> "resolve", conflict |-> conflict, arg |-> arg,
                outcome |-> resolve(conflict, DefaultArg(arg, defaultStrategy))]
    /\ UNCHANGED <<detVars, reported, dbVars, stoVars, defaultStrategy, conflictQueue, resolving, now, enqueued,
                   ra, batch, mgrVars>>

\* detector.autoResolve(conflict, strategy = 'last-write-wins'): it returns
\* the content or throws
AutoResolve ==
    /\ ret.op = "new"
    /\ \E conflict \in ResolveConflicts, arg \in ResolveStrategyArgs :
        ret' = [op |-> "autoResolve", conflict |-> conflict, arg |-> arg,
                outcome |-> autoResolve(conflict, DefaultArg(arg, "last-write-wins"))]
    /\ UNCHANGED <<detVars, reported, dbVars, stoVars, defaultStrategy, conflictQueue, resolving, now, enqueued,
                   ra, batch, mgrVars>>

\* new ConflictResolver(options), and possibly one enqueueConflict call
InitResolve ==
    /\ InitDetectIdle
    /\ InitManager
    /\ InitStorage
    /\ InitIndexedDB
    /\ defaultStrategy \in {NewDefaultStrategy(o) : o \in DefaultStrategyOptions}
    /\ conflictQueue \in {<<>>, enqueueConflict(<<>>, GoodConflict, 1000, 1000, <<18>>, 1)}
    /\ enqueued = Len(conflictQueue)
    /\ resolving = FALSE
    /\ now = 1000
    /\ ra = Idle
    /\ ret = [op |-> "new"]
    /\ batch = <<>>

NextResolve == Resolve \/ AutoResolve

SpecResolve == InitResolve /\ [][NextResolve]_vars

-----------------------------------------------------------------------------
(* One call of threeWayMerge *)

MaxLines == 2   \* lines of a text given to threeWayMerge

\* the lines '', 'x', 'y'
Lines == {<<>>, <<120>>, <<121>>}

\* every text of one to MaxLines of these lines ('' is the text of one
\* empty line)
Texts == {Str(join(ls)) : ls \in UNION {[1..n -> Lines] : n \in 1..MaxLines}}

ThreeWayMerge ==
    /\ ret.op = "new"
    /\ \E base \in Texts, local \in Texts, remote \in Texts :
        ret' = [op |-> "threeWayMerge", base |-> base, local |-> local,
                remote |-> remote, value |-> threeWayMerge(base, local, remote)]
    /\ UNCHANGED <<detVars, reported, dbVars, stoVars, defaultStrategy, conflictQueue, resolving, now, enqueued,
                   ra, batch, mgrVars>>

NextMerge == ThreeWayMerge

SpecMerge == Init /\ [][NextMerge]_vars

-----------------------------------------------------------------------------
(* StorageManager: initialize, the proxied operations, close, migrateData *)

MaxInFlight == 2   \* StorageManager calls suspended at an await at once

\* the instances initialize creates
IndexedDBStorage == [class |-> "IndexedDBStorage"]
LocalStorageAdapter == [class |-> "LocalStorageAdapter"]

\* a call of a method of a backend, whose promise is pending
Called(backend, method) ==
    [backend |-> backend.class, method |-> method, gave |-> "pending"]

\* the last call of the log has settled
Settled(log, gave) == [log EXCEPT ![Len(log)].gave = gave]

NotInitialized == "Storage not initialized. Call initialize() first."
NoStorageMechanism == "No storage mechanism available"
TargetRequired == "Target storage is required"
BackendError == "<the backend's error>"

\* the targetStorage argument of migrateData: none, or a storage
TargetStorage == [class |-> "<target>"]
Targets == {Null, TargetStorage}

\* a promise resolved with undefined
Void == Ok("<undefined>")

\* how the promise of isAvailable() settles: IndexedDBStorage catches every
\* error and gives false
AvailableOutcomes(backend) ==
    IF backend = IndexedDBStorage THEN {"true", "false"}
    ELSE {"true", "false", "rejected"}

\* how the promise of a backend's initialize() or of a read settles
SettleOutcomes == {"resolved", "rejected"}

\* how the promise of a backend's close() settles: IndexedDBStorage.close
\* only closes the connection
CloseOutcomes(class) ==
    IF class = IndexedDBStorage.class THEN {"resolved"} ELSE {"resolved", "rejected"}

\* the methods StorageManager hands on after _ensureInitialized
ProxiedOperations ==
    {"saveNotebook", "getNotebook", "listNotebooks", "deleteNotebook",
     "saveNote", "getNote", "listNotes", "deleteNote",
     "saveHistory", "getHistory", "cleanupHistory",
     "enqueueOperation", "dequeueOperations", "clearQueue", "removeOperation",
     "getStorageUsage", "cleanup"}

\* _ensureInitialized does not throw
EnsureInitialized == isInitialized /\ storage # Null

RemoveAt(seq, k) == SubSeq(seq, 1, k - 1) \o SubSeq(seq, k + 1, Len(seq))

Frame(op, pc, log) == [op |-> op, pc |-> pc, log |-> log]

\* initialize on an initialized manager returns at once
StorageInitializeNoOp ==
    /\ isInitialized /\ storage # Null
    /\ ret' = [op |-> "initialize", outcome |-> Void, log |-> <<>>]
    /\ UNCHANGED <<detVars, reported, dbVars, defaultStrategy, conflictQueue, resolving, now, enqueued, ra, batch,
                   mgrVars, stoVars>>

\* initialize up to await indexedDB.isAvailable()
StorageInitializeStart ==
    /\ ~(isInitialized /\ storage # Null)
    /\ Len(inFlight) < MaxInFlight
    /\ inFlight' = Append(inFlight,
           Frame("initialize", "indexedDB.isAvailable",
                 <<Called(IndexedDBStorage, "isAvailable")>>))
    /\ ret' = [op |-> "initialize", suspended |-> TRUE]
    /\ UNCHANGED <<detVars, reported, dbVars, defaultStrategy, conflictQueue, resolving, now, enqueued, ra, batch,
                   mgrVars, storage, storageType, isInitialized>>

\* the catch block up to await localStorage.isAvailable()
Fallback(k, gave) ==
    /\ inFlight' = [inFlight EXCEPT ![k] =
           Frame("initialize", "localStorage.isAvailable",
                 Append(Settled(@.log, gave),
                        Called(LocalStorageAdapter, "isAvailable")))]
    /\ ret' = [op |-> "initialize.resume", suspended |-> TRUE]
    /\ UNCHANGED <<storage, storageType, isInitialized>>

\* the backend taken without raising isInitialized
Selected_LeavesFlag(k, gave, backend, type) ==
    /\ storage' = backend
    /\ storageType' = type
    /\ isInitialized' = isInitialized
    /\ inFlight' = RemoveAt(inFlight, k)
    /\ ret' = [op |-> "initialize.resume", outcome |-> Void,
               log |-> Settled(inFlight[k].log, gave)]

\* the backend is taken and initialize returns
Selected(k, gave, backend, type) ==
    /\ storage' = backend
    /\ storageType' = type
    /\ isInitialized' = TRUE
    /\ inFlight' = RemoveAt(inFlight, k)
    /\ ret' = [op |-> "initialize.resume", outcome |-> Void,
               log |-> Settled(inFlight[k].log, gave)]

\* the inner catch block: initialize throws
Unavailable(k, gave) ==
    /\ inFlight' = RemoveAt(inFlight, k)
    /\ ret' = [op |-> "initialize.resume", outcome |-> Err(NoStorageMechanism),
               log |-> Settled(inFlight[k].log, gave)]
    /\ UNCHANGED <<storage, storageType, isInitialized>>

\* initialize resumes with what indexedDB.isAvailable() gave
AfterIndexedDBAvailable ==
    /\ \E k \in 1..Len(inFlight) :
        /\ inFlight[k].op = "initialize"
        /\ inFlight[k].pc = "indexedDB.isAvailable"
        /\ \E available \in AvailableOutcomes(IndexedDBStorage) :
            IF available = "true"
            THEN /\ inFlight' = [inFlight EXCEPT ![k] =
                        Frame("initialize", "indexedDB.initialize",
                              Append(Settled(@.log, available),
                                     Called(IndexedDBStorage, "initialize")))]
                 /\ ret' = [op |-> "initialize.resume", suspended |-> TRUE]
                 /\ UNCHANGED <<storage, storageType, isInitialized>>
            ELSE Fallback(k, available)
    /\ UNCHANGED <<detVars, reported, dbVars, defaultStrategy, conflictQueue, resolving, now, enqueued, ra, batch,
                   mgrVars>>

\* a rejected indexedDB.initialize() making initialize throw at once
AfterIndexedDBInitialize_NoDowngrade ==
    /\ \E k \in 1..Len(inFlight) :
        /\ inFlight[k].op = "initialize"
        /\ inFlight[k].pc = "indexedDB.initialize"
        /\ \E settled \in SettleOutcomes :
            IF settled = "resolved"
            THEN Selected(k, settled, IndexedDBStorage, "IndexedDB")
            ELSE Unavailable(k, settled)
    /\ UNCHANGED <<detVars, reported, dbVars, defaultStrategy, conflictQueue, resolving, now, enqueued, ra, batch,
                   mgrVars>>

\* initialize resumes with what indexedDB.initialize() gave
AfterIndexedDBInitialize ==
    /\ \E k \in 1..Len(inFlight) :
        /\ inFlight[k].op = "initialize"
        /\ inFlight[k].pc = "indexedDB.initialize"
        /\ \E settled \in SettleOutcomes :
            IF settled = "resolved"
            THEN Selected(k, settled, IndexedDBStorage, "IndexedDB")
            ELSE Fallback(k, settled)
    /\ UNCHANGED <<detVars, reported, dbVars, defaultStrategy, conflictQueue, resolving, now, enqueued, ra, batch,
                   mgrVars>>

\* initialize resumes with what localStorage.isAvailable() gave
AfterLocalStorageAvailable ==
    /\ \E k \in 1..Len(inFlight) :
        /\ inFlight[k].op = "initialize"
        /\ inFlight[k].pc = "localStorage.isAvailable"
        /\ \E available \in AvailableOutcomes(LocalStorageAdapter) :
            IF available = "true"
            THEN /\ inFlight' = [inFlight EXCEPT ![k] =
                        Frame("initialize", "localStorage.initialize",
                              Append(Settled(@.log, available),
                                     Called(LocalStorageAdapter, "initialize")))]
                 /\ ret' = [op |-> "initialize.resume", suspended |-> TRUE]
                 /\ UNCHANGED <<storage, storageType, isInitialized>>
            ELSE Unavailable(k, available)
    /\ UNCHANGED <<detVars, reported, dbVars, defaultStrategy, conflictQueue, resolving, now, enqueued, ra, batch,
                   mgrVars>>

\* initialize resumes with what localStorage.initialize() gave
AfterLocalStorageInitialize ==
    /\ \E k \in 1..Len(inFlight) :
        /\ inFlight[k].op = "initialize"
        /\ inFlight[k].pc = "localStorage.initialize"
        /\ \E settled \in SettleOutcomes :
            IF settled = "resolved"
            THEN Selected(k, settled, LocalStorageAdapter, "LocalStorage")
            ELSE Unavailable(k, settled)
    /\ UNCHANGED <<detVars, reported, dbVars, defaultStrategy, conflictQueue, resolving, now, enqueued, ra, batch,
                   mgrVars>>

\* a proxied operation handed on although _ensureInitialized throws
StorageOperationRejected_Forwards ==
    /\ ~EnsureInitialized
    /\ \E name \in ProxiedOperations :
        ret' = [op |-> name,
                log |-> IF storage = Null THEN <<>> ELSE <<Called(storage, name)>>,
                forwarded |-> storage]
    /\ UNCHANGED <<detVars, reported, dbVars, defaultStrategy, conflictQueue, resolving, now, enqueued, ra, batch,
                   mgrVars, stoVars>>

\* a proxied operation whose _ensureInitialized throws
StorageOperationRejected ==
    /\ ~EnsureInitialized
    /\ \E name \in ProxiedOperations :
        ret' = [op |-> name, outcome |-> Err(NotInitialized), log |-> <<>>]
    /\ UNCHANGED <<detVars, reported, dbVars, defaultStrategy, conflictQueue, resolving, now, enqueued, ra, batch,
                   mgrVars, stoVars>>

\* a proxied operation handed on to the active backend, whose promise it
\* returns
StorageOperationForwarded ==
    /\ EnsureInitialized
    /\ \E name \in ProxiedOperations :
        ret' = [op |-> name, log |-> <<Called(storage, name)>>,
                forwarded |-> storage]
    /\ UNCHANGED <<detVars, reported, dbVars, defaultStrategy, conflictQueue, resolving, now, enqueued, ra, batch,
                   mgrVars, stoVars>>

\* close without a backend
StorageCloseNoOp ==
    /\ storage = Null
    /\ ret' = [op |-> "close", outcome |-> Void, log |-> <<>>]
    /\ UNCHANGED <<detVars, reported, dbVars, defaultStrategy, conflictQueue, resolving, now, enqueued, ra, batch,
                   mgrVars, stoVars>>

\* close up to await this.storage.close()
StorageCloseStart ==
    /\ storage # Null
    /\ Len(inFlight) < MaxInFlight
    /\ inFlight' = Append(inFlight,
           Frame("close", "storage.close", <<Called(storage, "close")>>))
    /\ ret' = [op |-> "close", suspended |-> TRUE]
    /\ UNCHANGED <<detVars, reported, dbVars, defaultStrategy, conflictQueue, resolving, now, enqueued, ra, batch,
                   mgrVars, storage, storageType, isInitialized>>

\* close resumes with what the backend's close() gave
AfterStorageClose ==
    /\ \E k \in 1..Len(inFlight) :
        /\ inFlight[k].op = "close"
        /\ \E settled \in CloseOutcomes(inFlight[k].log[1].backend) :
            /\ inFlight' = RemoveAt(inFlight, k)
            /\ IF settled = "resolved"
               THEN /\ storage' = Null
                    /\ storageType' = NoStorageType
                    /\ isInitialized' = FALSE
                    /\ ret' = [op |-> "close.resume", outcome |-> Void,
                               log |-> Settled(inFlight[k].log, settled)]
               ELSE /\ ret' = [op |-> "close.resume", outcome |-> Err(BackendError),
                               log |-> Settled(inFlight[k].log, settled)]
                    /\ UNCHANGED <<storage, storageType, isInitialized>>
    /\ UNCHANGED <<detVars, reported, dbVars, defaultStrategy, conflictQueue, resolving, now, enqueued, ra, batch,
                   mgrVars>>

\* migrateData whose _ensureInitialized throws
MigrateDataRejected ==
    /\ ~EnsureInitialized
    /\ \E targetStorage \in Targets :
        ret' = [op |-> "migrateData", target |-> targetStorage,
                outcome |-> Err(NotInitialized), log |-> <<>>]
    /\ UNCHANGED <<detVars, reported, dbVars, defaultStrategy, conflictQueue, resolving, now, enqueued, ra, batch,
                   mgrVars, stoVars>>

\* migrateData without a target
MigrateDataNoTarget ==
    /\ EnsureInitialized
    /\ \E targetStorage \in Targets :
        /\ targetStorage = Null
        /\ ret' = [op |-> "migrateData", target |-> targetStorage,
                   outcome |-> Err(TargetRequired), log |-> <<>>]
    /\ UNCHANGED <<detVars, reported, dbVars, defaultStrategy, conflictQueue, resolving, now, enqueued, ra, batch,
                   mgrVars, stoVars>>

\* migrateData up to await targetStorage.initialize()
MigrateDataStart ==
    /\ EnsureInitialized
    /\ Len(inFlight) < MaxInFlight
    /\ \E targetStorage \in Targets :
        /\ targetStorage # Null
        /\ inFlight' = Append(inFlight,
               Frame("migrateData", "targetStorage.initialize",
                     <<Called(targetStorage, "initialize")>>))
        /\ ret' = [op |-> "migrateData", target |-> targetStorage,
                   suspended |-> TRUE]
    /\ UNCHANGED <<detVars, reported, dbVars, defaultStrategy, conflictQueue, resolving, now, enqueued, ra, batch,
                   mgrVars, storage, storageType, isInitialized>>

\* a read of migrateData through the manager's own proxy: handed on to the
\* active backend, or rejected and thrown on
MigrateRead(k, gave, name) ==
    IF EnsureInitialized
    THEN /\ inFlight' = [inFlight EXCEPT ![k] =
                Frame("migrateData", name,
                      Append(Settled(@.log, gave), Called(storage, name)))]
         /\ ret' = [op |-> "migrateData.resume", suspended |-> TRUE]
    ELSE /\ inFlight' = RemoveAt(inFlight, k)
         /\ ret' = [op |-> "migrateData.resume", outcome |-> Err(NotInitialized),
                    log |-> Settled(inFlight[k].log, gave)]

MigrateThrows(k, gave) ==
    /\ inFlight' = RemoveAt(inFlight, k)
    /\ ret' = [op |-> "migrateData.resume", outcome |-> Err(BackendError),
               log |-> Settled(inFlight[k].log, gave)]

\* migrateData resumes with what targetStorage.initialize() gave, up to
\* await this.listNotebooks()
AfterTargetInitialize ==
    /\ \E k \in 1..Len(inFlight) :
        /\ inFlight[k].op = "migrateData"
        /\ inFlight[k].pc = "targetStorage.initialize"
        /\ \E settled \in SettleOutcomes :
            IF settled = "resolved" THEN MigrateRead(k, settled, "listNotebooks")
            ELSE MigrateThrows(k, settled)
    /\ UNCHANGED <<detVars, reported, dbVars, defaultStrategy, conflictQueue, resolving, now, enqueued, ra, batch,
                   mgrVars, storage, storageType, isInitialized>>

\* migrateData resumes with the notebooks of a source that holds none, up
\* to await this.dequeueOperations()
AfterListNotebooks ==
    /\ \E k \in 1..Len(inFlight) :
        /\ inFlight[k].op = "migrateData"
        /\ inFlight[k].pc = "listNotebooks"
        /\ \E settled \in SettleOutcomes :
            IF settled = "resolved" THEN MigrateRead(k, settled, "dequeueOperations")
            ELSE MigrateThrows(k, settled)
    /\ UNCHANGED <<detVars, reported, dbVars, defaultStrategy, conflictQueue, resolving, now, enqueued, ra, batch,
                   mgrVars, storage, storageType, isInitialized>>

\* migrateData resumes with the operations of a source that holds none and
\* returns the counts
AfterDequeueOperations ==
    /\ \E k \in 1..Len(inFlight) :
        /\ inFlight[k].op = "migrateData"
        /\ inFlight[k].pc = "dequeueOperations"
        /\ \E settled \in SettleOutcomes :
            IF settled = "resolved"
            THEN /\ inFlight' = RemoveAt(inFlight, k)
                 /\ ret' = [op |-> "migrateData.resume",
                            outcome |-> Ok([notebooks |-> 0, notes |-> 0,
                                            history |-> 0, operations |-> 0]),
                            log |-> Settled(inFlight[k].log, settled)]
            ELSE MigrateThrows(k, settled)
    /\ UNCHANGED <<detVars, reported, dbVars, defaultStrategy, conflictQueue, resolving, now, enqueued, ra, batch,
                   mgrVars, storage, storageType, isInitialized>>

NextStorage ==
    \/ StorageInitializeNoOp
    \/ StorageInitializeStart
    \/ AfterIndexedDBAvailable
    \/ AfterIndexedDBInitialize
    \/ AfterLocalStorageAvailable
    \/ AfterLocalStorageInitialize
    \/ StorageOperationRejected
    \/ StorageOperationForwarded
    \/ StorageCloseNoOp
    \/ StorageCloseStart
    \/ AfterStorageClose
    \/ MigrateDataRejected
    \/ MigrateDataNoTarget
    \/ MigrateDataStart
    \/ AfterTargetInitialize
    \/ AfterListNotebooks
    \/ AfterDequeueOperations

SpecStorage == Init /\ [][NextStorage]_vars

-----------------------------------------------------------------------------
(* IndexedDBStorage: the object stores *)

\* undefined, as store.get gives for a key that is not stored
Undefined == [undefined |-> TRUE]

\* x || d for an optional value that is never falsy when it is there
OptOr(x, d) == IF x = <<>> THEN d ELSE x[1]

\* the order of string keys: code unit by code unit, a prefix first
RECURSIVE CodesLess(_, _)
CodesLess(a, b) ==
    IF Len(b) = 0 THEN FALSE
    ELSE IF Len(a) = 0 THEN TRUE
    ELSE IF Head(a) # Head(b) THEN Head(a) < Head(b)
    ELSE CodesLess(Tail(a), Tail(b))

KeyLess(a, b) == CodesLess(a.chars, b.chars)

\* the records of a set in the order the pairs of before give, which is
\* total on the set
Sorted(S, before) ==
    [i \in 1..Cardinality(S) |->
        CHOOSE x \in S : Cardinality({y \in S : <<y, x>> \in before}) = i - 1]

\* an object store with keyPath 'id' is the set of its records, one per id
Put(store, record) == {r \in store : r.id # record.id} \cup {record}
Get(store, id) ==
    IF \E r \in store : r.id = id THEN CHOOSE r \in store : r.id = id
    ELSE Undefined
Delete(store, id) == {r \in store : r.id # id}

\* store.getAll(): the records by key
GetAll(store) ==
    Sorted(store, {p \in store \X store : KeyLess(p[1].id, p[2].id)})

\* !x for a string that may be undefined
Falsy(string) == string = Null \/ string = Str(<<>>)

InvalidNotebook == "Invalid notebook data: id and name are required"
InvalidNote == "Invalid note data: id and notebookId are required"
InvalidHistory == "Invalid history entry: id and noteId are required"
InvalidOperation == "Invalid operation: id is required"
NoteNotFound == "Note not found in notebook"

\* what a call of the backend gives: the stores afterwards and the outcome
Result(d, outcome) == [db |-> d, outcome |-> outcome]

\* IndexedDBStorage.saveNotebook at time t
saveNotebook(d, notebook, t) ==
    IF Falsy(notebook.id) \/ Falsy(notebook.name)
    THEN Result(d, Err(InvalidNotebook))
    ELSE Result([d EXCEPT !.notebooks =
                    Put(@, [id |-> notebook.id, name |-> notebook.name,
                            updatedAt |-> t,
                            createdAt |-> OrDefault(notebook.createdAt, t)])],
                Void)

getNotebook(d, id) == Get(d.notebooks, id)
listNotebooks(d) == GetAll(d.notebooks)

\* IndexedDBStorage.saveNote at time t
saveNote(d, notebookId, note, t) ==
    IF Falsy(note.id) \/ Falsy(notebookId)
    THEN Result(d, Err(InvalidNote))
    ELSE Result([d EXCEPT !.notes =
                    Put(@, [id |-> note.id, content |-> note.content,
                            notebookId |-> notebookId,
                            updatedAt |-> t,
                            createdAt |-> OrDefault(note.createdAt, t),
                            version |-> OrDefault(note.version, 0) + 1,
                            tags |-> OptOr(note.tags, <<>>)])],
                Void)

\* getNote giving the note whatever notebook it is stored under
getNote_AnyNotebook(d, notebookId, noteId) == Get(d.notes, noteId)

\* IndexedDBStorage.getNote
getNote(d, notebookId, noteId) ==
    LET note == Get(d.notes, noteId)
    IN IF note # Undefined /\ note.notebookId # notebookId THEN Null ELSE note

\* IndexedDBStorage.listNotes: index.getAll(notebookId), then the sort by
\* updatedAt from the newest, which keeps the key order of equal times
listNotes(d, notebookId) ==
    LET notes == {n \in d.notes : n.notebookId = notebookId}
    IN Sorted(notes,
              {p \in notes \X notes :
                  \/ p[1].updatedAt > p[2].updatedAt
                  \/ /\ p[1].updatedAt = p[2].updatedAt
                     /\ KeyLess(p[1].id, p[2].id)})

\* a deleteNote whose history keys are never deleted
DeletedNote_KeepsHistory(d, noteId) ==
    [d EXCEPT !.notes = Delete(@, noteId)]

\* the stores a deleteNote transaction holds after its requests
DeletedNote(d, noteId) ==
    [d EXCEPT !.notes = Delete(@, noteId),
              !.history = {h \in @ : h.noteId # noteId}]

\* the ids of the notes the notebookId index lists under a notebook
NoteKeys(d, notebookId) == {n.id : n \in {m \in d.notes : m.notebookId = notebookId}}

\* the history of a note from the newest: the noteId_timestamp index over
\* [noteId, 0] .. [noteId, t] read backwards, equal times by key backwards
HistoryCursor(d, noteId, t) ==
    LET range == {h \in d.history :
                    h.noteId = noteId /\ h.timestamp >= 0 /\ h.timestamp <= t}
    IN Sorted(range,
              {p \in range \X range :
                  \/ p[1].timestamp > p[2].timestamp
                  \/ /\ p[1].timestamp = p[2].timestamp
                     /\ KeyLess(p[2].id, p[1].id)})

Min(a, b) == IF a < b THEN a ELSE b

\* the limit getHistory takes when none is passed
DefaultHistoryLimit == 50

\* IndexedDBStorage.getHistory at time t
getHistory(d, noteId, limit, t) ==
    LET cursor == HistoryCursor(d, noteId, t)
    IN SubSeq(cursor, 1, Min(limit, Len(cursor)))

\* IndexedDBStorage.cleanupHistory at time t: the stores and the deleted count
cleanupHistory(d, noteId, keepCount, t) ==
    LET cursor == HistoryCursor(d, noteId, t)
        beyond == {cursor[i].id : i \in (keepCount + 1)..Len(cursor)}
    IN Result([d EXCEPT !.history = {h \in @ : h.id \notin beyond}],
              Ok(Cardinality(beyond)))

\* the record saveHistory puts at time t
HistoryData(noteId, entry, t) ==
    [id |-> entry.id, content |-> entry.content, noteId |-> noteId,
     timestamp |-> OrDefault(entry.timestamp, t)]

\* IndexedDBStorage.enqueueOperation at time t
enqueueOperation(d, op, t) ==
    IF Falsy(op.id)
    THEN Result(d, Err(InvalidOperation))
    ELSE Result([d EXCEPT !.pendingOps =
                    Put(@, [id |-> op.id, type |-> op.type,
                            notebookId |-> op.notebookId,
                            timestamp |-> OrDefault(op.timestamp, t),
                            retries |-> OrDefault(op.retries, 0)])],
                Void)

\* IndexedDBStorage.dequeueOperations: getAll, then the sort by timestamp,
\* which keeps the key order of equal times
dequeueOperations(d) ==
    Sorted(d.pendingOps,
           {p \in d.pendingOps \X d.pendingOps :
               \/ p[1].timestamp < p[2].timestamp
               \/ /\ p[1].timestamp = p[2].timestamp
                  /\ KeyLess(p[1].id, p[2].id)})

-----------------------------------------------------------------------------
(* IndexedDBStorage: calls on an initialized backend *)

\* the calls of the backend that may be under way together
MaxCalls == 1

\* what no call of the backend touches
engineVars == <<detVars, reported, defaultStrategy, conflictQueue, resolving, enqueued,
                ra, batch, mgrVars, stoVars>>

NotebookIds == {Str(<<97>>), Str(<<98>>)}
NoteIds == {Str(<<109>>), Str(<<110>>)}
NoId == Str(<<>>)
Content == Str(<<120>>)

\* the notes a caller passes: new ones, with a version or without
NoteArgs ==
    [id : NoteIds \cup {NoId}, content : {Content},
     version : {Absent, Just(5)}, createdAt : {Absent}, tags : {Absent}]

\* a readwrite transaction that is open keeps the stores of its scope from
\* every transaction created after it
Open(frame) == "view" \in DOMAIN frame
Free(scope) ==
    \A k \in 1..Len(idb) : Open(idb[k]) => idb[k].scope \cap scope = {}

\* a transaction whose writes to notebooks and notes alone are stored
Committed_ParentFirst(d, scope, view) ==
    [store \in DOMAIN d |->
        IF store \in scope \cap {"notebooks", "notes"}
        THEN view[store] ELSE d[store]]

\* the stores once a transaction over scope completes with view
Committed(d, scope, view) ==
    [store \in DOMAIN d |-> IF store \in scope THEN view[store] ELSE d[store]]

\* saveNote: one put in one transaction, which completes or fails
SaveNote ==
    /\ Free({"notes"})
    /\ \E notebookId \in NotebookIds, note \in NoteArgs, t \in Readings(now),
          fails \in BOOLEAN :
        LET saved == saveNote(db, notebookId, note, t)
        IN /\ now' = t
           /\ IF fails /\ saved.outcome.ok
              THEN /\ db' = db
                   /\ ret' = [op |-> "saveNote", noteId |-> note.id,
                              outcome |-> Err(BackendError)]
              ELSE /\ db' = saved.db
                   /\ ret' = [op |-> "saveNote", noteId |-> note.id,
                              outcome |-> saved.outcome]
    /\ UNCHANGED <<engineVars, targetDb, idb, mig>>

\* getNote: one get in one transaction
GetNote ==
    /\ Free({"notes"})
    /\ \E notebookId \in NotebookIds, noteId \in NoteIds :
        ret' = [op |-> "getNote", notebookId |-> notebookId,
                noteId |-> noteId,
                outcome |-> Ok(getNote(db, notebookId, noteId))]
    /\ UNCHANGED <<engineVars, now, dbVars>>

\* listNotes: one index read in one transaction
ListNotes ==
    /\ Free({"notes"})
    /\ \E notebookId \in NotebookIds :
        ret' = [op |-> "listNotes", notebookId |-> notebookId,
                outcome |-> Ok(listNotes(db, notebookId))]
    /\ UNCHANGED <<engineVars, now, dbVars>>

\* deleteNote up to what getNote gave: the error for no note, or on to the
\* transaction
DeleteNoteStart ==
    /\ Free({"notes"})
    /\ Len(idb) < MaxCalls
    /\ \E notebookId \in NotebookIds, noteId \in NoteIds :
        LET note == getNote(db, notebookId, noteId)
        IN IF note = Undefined \/ note = Null
           THEN /\ ret' = [op |-> "deleteNote", notebookId |-> notebookId,
                           noteId |-> noteId, outcome |-> Err(NoteNotFound)]
                /\ idb' = idb
           ELSE /\ ret' = [op |-> "deleteNote", notebookId |-> notebookId,
                           noteId |-> noteId, suspended |-> TRUE]
                /\ idb' = Append(idb,
                       [op |-> "deleteNote", pc |-> "getNote",
                        notebookId |-> notebookId, noteId |-> noteId])
    /\ UNCHANGED <<engineVars, now, db, targetDb, mig>>

\* deleteNote opens its transaction over notes and history, deletes the note
\* and asks the noteId index for the keys of its history
DeleteNoteTransaction ==
    /\ Free({"notes", "history"})
    /\ \E k \in 1..Len(idb) :
        /\ idb[k].op = "deleteNote"
        /\ idb[k].pc = "getNote"
        /\ idb' = [idb EXCEPT ![k] =
               [op |-> "deleteNote", pc |-> "historyRequest",
                notebookId |-> idb[k].notebookId, noteId |-> idb[k].noteId,
                scope |-> {"notes", "history"},
                view |-> [db EXCEPT !.notes = Delete(@, idb[k].noteId)]]]
        /\ ret' = [op |-> "deleteNote.transaction",
                   noteId |-> idb[k].noteId]
    /\ UNCHANGED <<engineVars, now, db, targetDb, mig>>

\* historyRequest.onsuccess: every key the index gave is deleted
DeleteNoteHistory ==
    /\ \E k \in 1..Len(idb) :
        /\ idb[k].op = "deleteNote"
        /\ idb[k].pc = "historyRequest"
        /\ idb' = [idb EXCEPT ![k].pc = "complete",
                              ![k].view = DeletedNote(@, idb[k].noteId)]
        /\ ret' = [op |-> "deleteNote.historyRequest",
                   noteId |-> idb[k].noteId]
    /\ UNCHANGED <<engineVars, now, db, targetDb, mig>>

\* transaction.oncomplete of deleteNote: its writes are stored, it resolves
DeleteNoteComplete ==
    /\ \E k \in 1..Len(idb) :
        /\ idb[k].op = "deleteNote"
        /\ idb[k].pc = "complete"
        /\ db' = Committed(db, idb[k].scope, idb[k].view)
        /\ idb' = RemoveAt(idb, k)
        /\ ret' = [op |-> "deleteNote.resume",
                   notebookId |-> idb[k].notebookId,
                   noteId |-> idb[k].noteId, outcome |-> Void]
    /\ UNCHANGED <<engineVars, now, targetDb, mig>>

\* transaction.onerror: a request of an open transaction fails, none of its
\* writes is stored and the call rejects
TransactionError ==
    /\ \E k \in 1..Len(idb) :
        /\ Open(idb[k])
        /\ idb' = RemoveAt(idb, k)
        /\ ret' = [op |-> idb[k].op \o ".resume", aborted |-> TRUE,
                   outcome |-> Err(BackendError)]
    /\ UNCHANGED <<engineVars, now, db, targetDb, mig>>

\* a backend with a history entry for each note id, stored by saveHistory
\* before any note is
NotesDb ==
    [EmptyDb EXCEPT !.history =
        {[id |-> Str(<<104, 48 + i>>), content |-> Content,
          noteId |-> noteId, timestamp |-> 1000] :
            <<i, noteId>> \in {<<1, Str(<<109>>)>>, <<2, Str(<<110>>)>>}}]

InitNotes ==
    /\ InitDetectIdle /\ InitResolver /\ InitManager /\ InitStorage
    /\ db = NotesDb
    /\ targetDb = EmptyDb
    /\ idb = <<>>
    /\ mig = [pc |-> "idle"]

NextNotes ==
    \/ SaveNote
    \/ GetNote
    \/ ListNotes
    \/ DeleteNoteStart
    \/ DeleteNoteTransaction
    \/ DeleteNoteHistory
    \/ DeleteNoteComplete
    \/ TransactionError

SpecNotes == InitNotes /\ [][NextNotes]_vars

-----------------------------------------------------------------------------
(* IndexedDBStorage: notebooks and the cascade of deleteNotebook *)

Name == Str(<<78>>)

\* the notebooks a caller passes: with the createdAt of an earlier day or none
NotebookArgs ==
    [id : NotebookIds \cup {NoId}, name : {Name},
     createdAt : {Absent, Just(500)}]

\* saveNotebook: one put in one transaction, which completes or fails
SaveNotebook ==
    /\ Free({"notebooks"})
    /\ \E notebook \in NotebookArgs, t \in Readings(now), fails \in BOOLEAN :
        LET saved == saveNotebook(db, notebook, t)
        IN /\ now' = t
           /\ IF fails /\ saved.outcome.ok
              THEN /\ db' = db
                   /\ ret' = [op |-> "saveNotebook", id |-> notebook.id,
                              outcome |-> Err(BackendError)]
              ELSE /\ db' = saved.db
                   /\ ret' = [op |-> "saveNotebook", id |-> notebook.id,
                              outcome |-> saved.outcome]
    /\ UNCHANGED <<engineVars, targetDb, idb, mig>>

\* getNotebook: one get in one transaction
GetNotebook ==
    /\ Free({"notebooks"})
    /\ \E id \in NotebookIds :
        ret' = [op |-> "getNotebook", id |-> id,
                outcome |-> Ok(getNotebook(db, id))]
    /\ UNCHANGED <<engineVars, now, dbVars>>

\* listNotebooks: one getAll in one transaction
ListNotebooks ==
    /\ Free({"notebooks"})
    /\ ret' = [op |-> "listNotebooks", outcome |-> Ok(listNotebooks(db))]
    /\ UNCHANGED <<engineVars, now, dbVars>>

\* notesRequest.onsuccess: the notes of the notebook are deleted
DeletedNotes(d, noteIds) ==
    [d EXCEPT !.notes = {n \in @ : n.id \notin noteIds}]

\* historyRequest.onsuccess of each note: its history is deleted
DeletedHistory(d, noteIds) ==
    [d EXCEPT !.history = {h \in @ : h.noteId \notin noteIds}]

\* an opsRequest.onsuccess that deletes nothing
DeletedOps_None(d, id) == d

\* opsRequest.onsuccess: the pending operations of the notebook are deleted
DeletedOps(d, id) ==
    [d EXCEPT !.pendingOps = {o \in @ : o.notebookId # id}]

AllStores == {"notebooks", "notes", "history", "pendingOps"}

\* deleteNotebook opens its transaction over the four stores, deletes the
\* notebook and asks the notebookId index for the keys of its notes
DeleteNotebookStart ==
    /\ Free(AllStores)
    /\ Len(idb) < MaxCalls
    /\ \E id \in NotebookIds :
        /\ idb' = Append(idb,
               [op |-> "deleteNotebook", pc |-> "notesRequest", id |-> id,
                noteIds |-> {}, scope |-> AllStores,
                view |-> [db EXCEPT !.notebooks = Delete(@, id)]])
        /\ ret' = [op |-> "deleteNotebook", id |-> id, suspended |-> TRUE]
    /\ UNCHANGED <<engineVars, now, db, targetDb, mig>>

\* notesRequest.onsuccess: each note is deleted and its history keys asked
\* for, then the keys of the pending operations of the notebook
DeleteNotebookNotes ==
    /\ \E k \in 1..Len(idb) :
        /\ idb[k].op = "deleteNotebook"
        /\ idb[k].pc = "notesRequest"
        /\ LET noteIds == NoteKeys(idb[k].view, idb[k].id)
           IN idb' = [idb EXCEPT ![k].pc = "historyRequest",
                                 ![k].noteIds = noteIds,
                                 ![k].view = DeletedNotes(@, noteIds)]
        /\ ret' = [op |-> "deleteNotebook.notesRequest", id |-> idb[k].id]
    /\ UNCHANGED <<engineVars, now, db, targetDb, mig>>

\* the historyRequest.onsuccess of the notes
DeleteNotebookHistory ==
    /\ \E k \in 1..Len(idb) :
        /\ idb[k].op = "deleteNotebook"
        /\ idb[k].pc = "historyRequest"
        /\ idb' = [idb EXCEPT ![k].pc = "opsRequest",
                              ![k].view = DeletedHistory(@, idb[k].noteIds)]
        /\ ret' = [op |-> "deleteNotebook.historyRequest", id |-> idb[k].id]
    /\ UNCHANGED <<engineVars, now, db, targetDb, mig>>

\* opsRequest.onsuccess
DeleteNotebookOps ==
    /\ \E k \in 1..Len(idb) :
        /\ idb[k].op = "deleteNotebook"
        /\ idb[k].pc = "opsRequest"
        /\ idb' = [idb EXCEPT ![k].pc = "complete",
                              ![k].view = DeletedOps(@, idb[k].id)]
        /\ ret' = [op |-> "deleteNotebook.opsRequest", id |-> idb[k].id]
    /\ UNCHANGED <<engineVars, now, db, targetDb, mig>>

\* transaction.oncomplete of deleteNotebook: its writes are stored, it
\* resolves
DeleteNotebookComplete ==
    /\ \E k \in 1..Len(idb) :
        /\ idb[k].op = "deleteNotebook"
        /\ idb[k].pc = "complete"
        /\ db' = Committed(db, idb[k].scope, idb[k].view)
        /\ idb' = RemoveAt(idb, k)
        /\ ret' = [op |-> "deleteNotebook.resume", id |-> idb[k].id,
                   outcome |-> Void]
    /\ UNCHANGED <<engineVars, now, targetDb, mig>>

\* a backend where each notebook id has a note, the note a history entry and
\* the notebook a pending operation, stored before any notebook is
NotebooksDb ==
    LET pairs == {<<1, Str(<<97>>), Str(<<109>>)>>,
                  <<2, Str(<<98>>), Str(<<110>>)>>}
    IN [notebooks |-> {},
        notes |-> {[id |-> p[3], content |-> Content, notebookId |-> p[2],
                    updatedAt |-> 1000, createdAt |-> 1000, version |-> 1,
                    tags |-> <<>>] : p \in pairs},
        history |-> {[id |-> Str(<<104, 48 + p[1]>>), content |-> Content,
                      noteId |-> p[3], timestamp |-> 1000] : p \in pairs},
        pendingOps |-> {[id |-> Str(<<111, 48 + p[1]>>), type |-> "update",
                         notebookId |-> p[2], timestamp |-> 1000,
                         retries |-> 0] : p \in pairs}]

InitNotebooks ==
    /\ InitDetectIdle /\ InitResolver /\ InitManager /\ InitStorage
    /\ db = NotebooksDb
    /\ targetDb = EmptyDb
    /\ idb = <<>>
    /\ mig = [pc |-> "idle"]

NextNotebooks ==
    \/ SaveNotebook
    \/ GetNotebook
    \/ ListNotebooks
    \/ GetNote
    \/ DeleteNotebookStart
    \/ DeleteNotebookNotes
    \/ DeleteNotebookHistory
    \/ DeleteNotebookOps
    \/ DeleteNotebookComplete
    \/ DeleteNoteStart
    \/ DeleteNoteTransaction
    \/ DeleteNoteHistory
    \/ DeleteNoteComplete
    \/ TransactionError

SpecNotebooks == InitNotebooks /\ [][NextNotebooks]_vars

-----------------------------------------------------------------------------
(* IndexedDBStorage: history *)

\* the cap the backend of this part is constructed with
MaxHistory == 2

\* the cap of a backend constructed without one
DefaultMaxHistoryPerNote == 100

\* this.maxHistoryPerNote as the constructor sets it
maxHistoryPerNote(option) == OrDefault(option, DefaultMaxHistoryPerNote)

HistoryIds == {Str(<<104, 48 + i>>) : i \in 1..(MaxHistory + 1)}

\* the entries a caller passes: stamped by the backend, or by the caller
\* with a time ahead of the backend's clock
HistoryArgs ==
    [id : HistoryIds \cup {NoId}, content : {Content},
     timestamp : {Absent, Just(2000)}]

\* saveHistory up to the await of cleanupHistory: the entry is put in one
\* transaction, which completes or fails
SaveHistoryStart ==
    /\ Free({"history"})
    /\ Len(idb) < MaxCalls
    /\ \E noteId \in NoteIds, entry \in HistoryArgs, t \in Readings(now),
          fails \in BOOLEAN :
        /\ now' = t
        /\ IF Falsy(entry.id) \/ Falsy(noteId)
           THEN /\ db' = db
                /\ idb' = idb
                /\ ret' = [op |-> "saveHistory", noteId |-> noteId,
                           outcome |-> Err(InvalidHistory)]
           ELSE IF fails
           THEN /\ db' = db
                /\ idb' = idb
                /\ ret' = [op |-> "saveHistory", noteId |-> noteId,
                           outcome |-> Err(BackendError)]
           ELSE /\ db' = [db EXCEPT !.history =
                              Put(@, HistoryData(noteId, entry, t))]
                /\ idb' = Append(idb, [op |-> "saveHistory",
                                       pc |-> "cleanupHistory",
                                       noteId |-> noteId])
                /\ ret' = [op |-> "saveHistory", noteId |-> noteId,
                           suspended |-> TRUE]
    /\ UNCHANGED <<engineVars, targetDb, mig>>

\* saveHistory resumes with what cleanupHistory(noteId, maxHistoryPerNote)
\* gave: its transaction completes or fails
AfterCleanupHistory ==
    /\ Free({"history"})
    /\ \E k \in 1..Len(idb), t \in Readings(now), fails \in BOOLEAN :
        /\ idb[k].op = "saveHistory"
        /\ idb[k].pc = "cleanupHistory"
        /\ now' = t
        /\ idb' = RemoveAt(idb, k)
        /\ IF fails
           THEN /\ db' = db
                /\ ret' = [op |-> "saveHistory.resume",
                           noteId |-> idb[k].noteId,
                           outcome |-> Err(BackendError)]
           ELSE /\ db' = cleanupHistory(db, idb[k].noteId,
                              maxHistoryPerNote(Just(MaxHistory)), t).db
                /\ ret' = [op |-> "saveHistory.resume",
                           noteId |-> idb[k].noteId, outcome |-> Void]
    /\ UNCHANGED <<engineVars, targetDb, mig>>

\* getHistory with the default limit: one cursor in one transaction
GetHistory ==
    /\ Free({"history"})
    /\ \E noteId \in NoteIds, t \in Readings(now) :
        /\ now' = t
        /\ ret' = [op |-> "getHistory", noteId |-> noteId,
                   outcome |-> Ok(getHistory(db, noteId,
                                             DefaultHistoryLimit, t))]
    /\ UNCHANGED <<engineVars, dbVars>>

\* cleanupHistory called by itself: one cursor in one transaction, which
\* completes or fails
CleanupHistory ==
    /\ Free({"history"})
    /\ \E noteId \in NoteIds, keepCount \in 0..MaxHistory,
          t \in Readings(now), fails \in BOOLEAN :
        LET cleaned == cleanupHistory(db, noteId, keepCount, t)
        IN /\ now' = t
           /\ db' = IF fails THEN db ELSE cleaned.db
           /\ ret' = [op |-> "cleanupHistory", noteId |-> noteId,
                      keepCount |-> keepCount,
                      outcome |-> IF fails THEN Err(BackendError)
                                  ELSE cleaned.outcome]
    /\ UNCHANGED <<engineVars, targetDb, idb, mig>>

NextHistory ==
    \/ SaveHistoryStart
    \/ AfterCleanupHistory
    \/ GetHistory
    \/ CleanupHistory

SpecHistory == Init /\ [][NextHistory]_vars

-----------------------------------------------------------------------------
(* StorageManager.migrateData from an IndexedDBStorage into a target *)

\* IndexedDBStorage.saveHistory with the put at time t and the cleanup at t2
saveHistory(d, noteId, entry, keepCount, t, t2) ==
    IF Falsy(entry.id) \/ Falsy(noteId)
    THEN Result(d, Err(InvalidHistory))
    ELSE Result(cleanupHistory(
                    [d EXCEPT !.history = Put(@, HistoryData(noteId, entry, t))],
                    noteId, keepCount, t2).db,
                Void)

\* a stored record passed as an object: every field it has is there
Passed(record) ==
    [f \in DOMAIN record |->
        IF f \in {"createdAt", "updatedAt", "version", "timestamp",
                  "retries", "tags"}
        THEN Just(record[f]) ELSE record[f]]

\* const stats = { notebooks: 0, notes: 0, history: 0, operations: 0 }
NoStats == [notebooks |-> 0, notes |-> 0, history |-> 0, operations |-> 0]

\* a call of a backend by migrateData
On(backend, call, id) == [on |-> backend, call |-> call, id |-> id]

\* migrateData suspended at an await
Migrating(pc, frame) == [frame EXCEPT !.pc = pc]

\* the next await after a history entry is saved, or a list has been read
\* or used up: the loops from the innermost
NextOperation(f) ==
    IF f.operations # <<>>
    THEN [f EXCEPT !.pc = "enqueueOperation", !.op = Head(f.operations),
                   !.operations = Tail(f.operations)]
    ELSE [f EXCEPT !.pc = "return"]

NextNotebook(f) ==
    IF f.notebooks # <<>>
    THEN [f EXCEPT !.pc = "saveNotebook", !.notebook = Head(f.notebooks),
                   !.notebooks = Tail(f.notebooks)]
    ELSE [f EXCEPT !.pc = "dequeueOperations"]

NextNote(f) ==
    IF f.notes # <<>>
    THEN [f EXCEPT !.pc = "saveNote", !.note = Head(f.notes),
                   !.notes = Tail(f.notes)]
    ELSE NextNotebook(f)

NextEntry(f) ==
    IF f.history # <<>>
    THEN [f EXCEPT !.pc = "saveHistory", !.entry = Head(f.history),
                   !.history = Tail(f.history)]
    ELSE NextNote(f)

\* the call the frame is suspended at, for the log
AwaitedCall(f) ==
    CASE f.pc = "saveNotebook" -> On("target", "saveNotebook", f.notebook.id)
      [] f.pc = "saveNote" -> On("target", "saveNote", f.note.id)
      [] f.pc = "saveHistory" -> On("target", "saveHistory", f.entry.id)
      [] f.pc = "enqueueOperation" -> On("target", "enqueueOperation", f.op.id)
      [] f.pc = "listNotes" -> On("source", "listNotes", f.notebook.id)
      [] f.pc = "getHistory" -> On("source", "getHistory", f.note.id)
      [] f.pc = "dequeueOperations" -> On("source", "dequeueOperations", NoId)
      [] f.pc = "listNotebooks" -> On("source", "listNotebooks", NoId)
      [] OTHER -> On("target", "initialize", NoId)

\* migrateData goes on to its next await, or returns stats after the last
Continue(f) ==
    IF f.pc = "return"
    THEN /\ mig' = [pc |-> "idle"]
         /\ ret' = [op |-> "migrateData.resume", outcome |-> Ok(f.stats),
                    log |-> f.log]
    ELSE /\ mig' = [f EXCEPT !.log = Append(@, AwaitedCall(f))]
         /\ ret' = [op |-> "migrateData." \o f.pc]

\* migrateData up to await targetStorage.initialize()
MigrateCall ==
    /\ EnsureInitialized
    /\ mig.pc = "idle"
    /\ ret.op = "new"
    /\ mig' = [pc |-> "initialize", stats |-> NoStats,
               notebooks |-> <<>>, notes |-> <<>>, history |-> <<>>,
               operations |-> <<>>, notebook |-> Null, note |-> Null,
               entry |-> Null, op |-> Null,
               log |-> <<On("target", "initialize", NoId)>>]
    /\ ret' = [op |-> "migrateData", suspended |-> TRUE]
    /\ UNCHANGED <<engineVars, now, db, targetDb, idb>>

\* the target is initialized: on to await this.listNotebooks()
MigrateTargetInitialized ==
    /\ mig.pc = "initialize"
    /\ EnsureInitialized
    /\ Continue(Migrating("listNotebooks", mig))
    /\ UNCHANGED <<engineVars, now, db, targetDb, idb>>

\* listNotebooks gave the notebooks of the source
MigrateNotebooksListed ==
    /\ mig.pc = "listNotebooks"
    /\ Continue(NextNotebook([mig EXCEPT !.notebooks = listNotebooks(db)]))
    /\ UNCHANGED <<engineVars, now, db, targetDb, idb>>

\* targetStorage.saveNotebook(notebook) resolved: stats.notebooks++, on to
\* await this.listNotes(notebook.id)
MigrateNotebookSaved ==
    /\ mig.pc = "saveNotebook"
    /\ EnsureInitialized
    /\ \E t \in Readings(now) :
        /\ now' = t
        /\ targetDb' = saveNotebook(targetDb, Passed(mig.notebook), t).db
    /\ Continue(Migrating("listNotes",
                    [mig EXCEPT !.stats.notebooks = @ + 1]))
    /\ UNCHANGED <<engineVars, db, idb>>

\* listNotes gave the notes of the notebook
MigrateNotesListed ==
    /\ mig.pc = "listNotes"
    /\ Continue(NextNote([mig EXCEPT
                    !.notes = listNotes(db, mig.notebook.id)]))
    /\ UNCHANGED <<engineVars, now, db, targetDb, idb>>

\* targetStorage.saveNote(notebook.id, note) resolved: stats.notes++, on to
\* await this.getHistory(note.id)
MigrateNoteSaved ==
    /\ mig.pc = "saveNote"
    /\ EnsureInitialized
    /\ \E t \in Readings(now) :
        /\ now' = t
        /\ targetDb' = saveNote(targetDb, mig.notebook.id,
                                Passed(mig.note), t).db
    /\ Continue(Migrating("getHistory", [mig EXCEPT !.stats.notes = @ + 1]))
    /\ UNCHANGED <<engineVars, db, idb>>

\* getHistory(note.id) gave the history of the note, up to its default limit
MigrateHistoryRead ==
    /\ mig.pc = "getHistory"
    /\ \E t \in Readings(now) :
        /\ now' = t
        /\ Continue(NextEntry([mig EXCEPT
               !.history = getHistory(db, mig.note.id,
                                      DefaultHistoryLimit, t)]))
    /\ UNCHANGED <<engineVars, db, targetDb, idb>>

\* targetStorage.saveHistory(note.id, entry) resolved: stats.history++
MigrateHistorySaved ==
    /\ mig.pc = "saveHistory"
    /\ \E t \in Readings(now) :
        /\ now' = t
        /\ targetDb' = saveHistory(targetDb, mig.note.id, Passed(mig.entry),
                                   maxHistoryPerNote(Absent), t, t).db
    /\ Continue(NextEntry([mig EXCEPT !.stats.history = @ + 1]))
    /\ UNCHANGED <<engineVars, db, idb>>

\* a dequeueOperations that takes the operations off the source's queue
MigrateOperationsRead_Removes ==
    /\ mig.pc = "dequeueOperations"
    /\ Continue(NextOperation([mig EXCEPT
                    !.operations = dequeueOperations(db)]))
    /\ db' = [db EXCEPT !.pendingOps = {}]
    /\ UNCHANGED <<engineVars, now, targetDb, idb>>

\* dequeueOperations gave the pending operations of the source
MigrateOperationsRead ==
    /\ mig.pc = "dequeueOperations"
    /\ Continue(NextOperation([mig EXCEPT
                    !.operations = dequeueOperations(db)]))
    /\ UNCHANGED <<engineVars, now, db, targetDb, idb>>

\* targetStorage.enqueueOperation(op) resolved: stats.operations++
MigrateOperationSaved ==
    /\ mig.pc = "enqueueOperation"
    /\ \E t \in Readings(now) :
        /\ now' = t
        /\ targetDb' = enqueueOperation(targetDb, Passed(mig.op), t).db
    /\ Continue(NextOperation([mig EXCEPT !.stats.operations = @ + 1]))
    /\ UNCHANGED <<engineVars, db, idb>>

\* the awaited call rejects: the catch block throws the error on, or, for
\* targetStorage.initialize(), migrateData rejects with it
MigrateFails ==
    /\ mig.pc # "idle"
    /\ mig' = [pc |-> "idle"]
    /\ ret' = [op |-> "migrateData.resume", outcome |-> Err(BackendError),
               log |-> mig.log]
    /\ UNCHANGED <<engineVars, now, db, targetDb, idb>>

\* the sources: notebooks, notes in each, history entries of each note,
\* pending operations
Shapes ==
    {<<1, 1, 1, 1>>, <<2, 2, 1, 2>>, <<1, 1, DefaultHistoryLimit + 1, 0>>,
     <<0, 0, 0, 1>>}

\* a backend holding the records of a shape, saved at time 1000 with
\* history stamped before it
Source(shape) ==
    LET nb(b) == Str(<<96 + b>>)
        nt(b, m) == Str(<<96 + b, 108 + m>>)
    IN [notebooks |->
            {[id |-> nb(b), name |-> Name, updatedAt |-> 1000,
              createdAt |-> 1000] : b \in 1..shape[1]},
        notes |->
            {[id |-> nt(x[1], x[2]), content |-> Content,
              notebookId |-> nb(x[1]), updatedAt |-> 1000,
              createdAt |-> 1000, version |-> 1, tags |-> <<>>] :
                x \in (1..shape[1]) \X (1..shape[2])},
        history |->
            {[id |-> Str(<<104, 96 + x[1], 108 + x[2], x[3]>>),
              content |-> Content, noteId |-> nt(x[1], x[2]),
              timestamp |-> 900 + x[3]] :
                x \in (1..shape[1]) \X (1..shape[2]) \X (1..shape[3])},
        pendingOps |->
            {[id |-> Str(<<111, 48 + p>>), type |-> "update",
              notebookId |-> nb(1), timestamp |-> 1000, retries |-> 0] :
                p \in 1..shape[4]}]

\* a manager whose initialize() chose IndexedDBStorage, over a source
InitMigrate ==
    /\ InitDetectIdle /\ InitResolver /\ InitManager
    /\ storage = IndexedDBStorage
    /\ storageType = "IndexedDB"
    /\ isInitialized = TRUE
    /\ inFlight = <<>>
    /\ db \in {Source(shape) : shape \in Shapes}
    /\ targetDb = EmptyDb
    /\ idb = <<>>
    /\ mig = [pc |-> "idle"]

NextMigrate ==
    \/ MigrateCall
    \/ MigrateTargetInitialized
    \/ MigrateNotebooksListed
    \/ MigrateNotebookSaved
    \/ MigrateNotesListed
    \/ MigrateNoteSaved
    \/ MigrateHistoryRead
    \/ MigrateHistorySaved
    \/ MigrateOperationsRead
    \/ MigrateOperationSaved
    \/ MigrateFails

SpecMigrate == InitMigrate /\ [][NextMigrate]_vars

-----------------------------------------------------------------------------
(* Claims about detectConflict *)

Kind(result) == IF result = Null THEN "none" ELSE result.type

DetectDone == detResult # NotRun

\* the five rules of the decision order, as guards and outcomes
RuleGuards(l, r, w) ==
    << l.hash = r.hash \/ l.content = r.content,
       l.version = r.version,
       Abs(l.timestamp - r.timestamp) < w,
       l.version < r.version /\ l.hash # r.hash,
       TRUE >>

RuleOutcomes ==
    <<"none", "concurrent_edit", "concurrent_edit", "offline_divergence", "none">>

FirstMatch(g) == CHOOSE i \in 1..5 : g[i] /\ \A j \in 1..(i - 1) : ~g[j]

\* C1: detectConflict returns what the first matching rule of the decision
\* order gives (a conflict carries the two arguments); detectConflict(v, v)
\* is none; a timestamp difference equal to conflictWindow is not concurrent.
C1_DecisionOrder ==
    DetectDone =>
        LET g == RuleGuards(detLocal, detRemote, conflictWindow)
        IN /\ Kind(detResult) = RuleOutcomes[FirstMatch(g)]
           /\ detResult # Null =>
                 /\ detResult.localVersion = detLocal
                 /\ detResult.remoteVersion = detRemote
           /\ detLocal = detRemote => detResult = Null
           /\ ( /\ ~g[1]
                /\ ~g[2]
                /\ Abs(detLocal.timestamp - detRemote.timestamp) = conflictWindow )
                  => Kind(detResult) # "concurrent_edit"

\* a call at the boundary of the window, decided by rule 4
C1_Witness ==
    /\ DetectDone
    /\ Abs(detLocal.timestamp - detRemote.timestamp) = conflictWindow
    /\ detLocal.content # detRemote.content
    /\ Kind(detResult) = "offline_divergence"

\* the decision order with the content comparison alone deciding rule 1
ContentRuleGuards(l, r, w) ==
    << l.content = r.content,
       l.version = r.version,
       Abs(l.timestamp - r.timestamp) < w,
       l.version < r.version,
       TRUE >>

GenuineHash(v) == v.hash = hashContent(v.content)

\* C2: for contents that differ, equal fingerprints never turn the answer
\* into "no conflict": the answer is the one the content comparison gives.
C2_HashEqualityIsOnlyAHint ==
    ( /\ DetectDone
      /\ GenuineHash(detLocal)
      /\ GenuineHash(detRemote)
      /\ detLocal.content # detRemote.content )
        => Kind(detResult) =
             RuleOutcomes[FirstMatch(ContentRuleGuards(detLocal, detRemote, conflictWindow))]

-----------------------------------------------------------------------------
(* Claims about the resolver *)

Returned(r) == "outcome" \in DOMAIN r
ReturnedOk(r) == Returned(r) /\ r.outcome.ok
Rejected(r) == Returned(r) /\ ~r.outcome.ok

IsResolveAllReturn(r) == r.op \in {"resolveAll", "resolveAll.resume"} /\ ReturnedOk(r)

\* C3: resolveAll is single-flight. A resolveAll call made while an earlier
\* one is suspended at its await is rejected with AlreadyResolving and changes
\* neither the queue, nor the busy flag, nor the suspended call; the flag is
\* held for as long as the call is suspended; the suspended call does return;
\* and when it returns the queue is empty and the flag is down.
C3_SingleFlight ==
    /\ [][ (ra.pc = "await" /\ ret'.op = "resolveAll")
             => /\ ret' = [op |-> "resolveAll", outcome |-> Err("AlreadyResolving")]
                /\ conflictQueue' = conflictQueue
                /\ resolving' = resolving
                /\ ra' = ra ]_vars
    /\ [](ra.pc = "await" => resolving)
    /\ []((ret.op = "resolveAll" /\ Rejected(ret)) => ra.pc = "await")
    /\ []((ret.op = "resolveAll.resume" /\ ReturnedOk(ret))
             => conflictQueue = <<>> /\ ~resolving /\ ra.pc = "idle")
    /\ (ra.pc = "await")
          ~> (ret.op = "resolveAll.resume" /\ ReturnedOk(ret) /\ conflictQueue = <<>>)

\* a second call was rejected while the first is suspended with work left
C3_Witness ==
    /\ ret = [op |-> "resolveAll", outcome |-> Err("AlreadyResolving")]
    /\ ra.pc = "await"
    /\ Len(conflictQueue) >= 2

\* the items of a queue whose resolve succeeds, as {id, resolved}, in order
RECURSIVE Successes(_, _)
Successes(queue, strategy) ==
    IF queue = <<>> THEN <<>>
    ELSE LET promise == resolve(queue[1].conflict, strategy)
             rest == Successes(Tail(queue), strategy)
         IN IF promise.ok
            THEN <<[id |-> queue[1].id, resolved |-> promise.value]>> \o rest
            ELSE rest

\* C4: with no other call changing the queue meanwhile, resolveAll returns
\* (it never rejects because of an item), leaves the queue empty, and its
\* result lists exactly the items of the queue whose resolve succeeds, in
\* queue order.
C4_BatchResilience ==
    IsResolveAllReturn(ret)
        => /\ conflictQueue = <<>>
           /\ ret.outcome.value = Successes(batch, ret.strategy)

SortedBySn(queue) ==
    \A i, j \in 1..Len(queue) : i < j => queue[i].sn < queue[j].sn

\* C5: the queue is FIFO. The queue always lists its items in the order they
\* were enqueued; enqueueConflict adds the new item at the tail and removes
\* nothing; removeConflict takes out no item with another id and keeps the
\* order of the rest; getNextConflict returns the earliest-enqueued item
\* still queued, null when the queue is empty.
C5_QueueFIFO ==
    /\ [](SortedBySn(conflictQueue))
    /\ []( ret.op = "getNextConflict"
             => IF conflictQueue = <<>> THEN ret.value = Null
                ELSE /\ ret.value = conflictQueue[1]
                     /\ \A i \in 1..Len(conflictQueue) :
                          ret.value.sn <= conflictQueue[i].sn )
    /\ [][ ret'.op = "enqueueConflict"
             => /\ Len(conflictQueue') = Len(conflictQueue) + 1
                /\ SubSeq(conflictQueue', 1, Len(conflictQueue)) = conflictQueue
                /\ conflictQueue'[Len(conflictQueue')].sn = enqueued' ]_vars
    /\ [][ ret'.op = "removeConflict"
             => conflictQueue' =
                  SelectSeq(conflictQueue, LAMBDA item : item.id # ret'.id) ]_vars

\* the first of three items was removed; getNextConflict gave the second
C5_Witness ==
    /\ ret.op = "getNextConflict"
    /\ enqueued = 3
    /\ Len(conflictQueue) = 2
    /\ ret.value # Null
    /\ ret.value.sn = 2

\* C6: the ids of the queued items are pairwise distinct.
C6_UniqueIds ==
    \A i, j \in 1..Len(conflictQueue) :
        i # j => conflictQueue[i].id # conflictQueue[j].id

-----------------------------------------------------------------------------
(* Claims about the manager *)

IsCheckAndHandle(r) == r.op \in {"checkAndHandle", "checkAndHandle.resume"}

\* the conflict detection gives for the inputs of the checkAndHandle step r
DetectedBy(r) == detectConflict(r.local, r.remote, conflictWindow)

HookCalls(r, hook) == SelectSeq(r.hooks, LAMBDA c : c.hook = hook)

\* C7: a checkAndHandle call on inputs in which no conflict is detected
\* returns {hasConflict: false, resolved: the remote content, conflict: null}
\* without suspending, invokes no hook and leaves the queue as it was; no
\* other call returns hasConflict false; and this is what happens when the
\* contents differ, the local version is the higher one and the timestamps
\* are at least conflictWindow apart.
C7_NoConflictReturnsRemote ==
    /\ []( (ret.op = "checkAndHandle" /\ DetectedBy(ret) = Null)
             => /\ Returned(ret)
                /\ ret.outcome = Ok([hasConflict |-> FALSE,
                                     resolved |-> ret.remote.content,
                                     conflict |-> Null])
                /\ ret.hooks = <<>>
                /\ mgr.pc = "idle" )
    /\ [][ (ret'.op = "checkAndHandle" /\ DetectedBy(ret') = Null)
             => conflictQueue' = conflictQueue ]_vars
    /\ []( (IsCheckAndHandle(ret) /\ Returned(ret) /\ ~ret.outcome.value.hasConflict)
             => ret.op = "checkAndHandle" /\ DetectedBy(ret) = Null )
    /\ []( ( /\ ret.op = "checkAndHandle"
             /\ ret.local.content # ret.remote.content
             /\ ret.local.hash # ret.remote.hash
             /\ ret.local.version > ret.remote.version
             /\ Abs(ret.local.timestamp - ret.remote.timestamp) >= conflictWindow )
             => /\ Returned(ret)
                /\ ~ret.outcome.value.hasConflict
                /\ ret.outcome.value.resolved = ret.remote.content )

\* the higher local version was dropped for the remote content, with a hook
\* set and a conflict waiting on the queue
C7_Witness ==
    /\ ret.op = "checkAndHandle"
    /\ Returned(ret)
    /\ ~ret.outcome.value.hasConflict
    /\ ret.local.version > ret.remote.version
    /\ ret.outcome.value.resolved # ret.local.content
    /\ onConflictDetected
    /\ conflictQueue # <<>>

\* C8: when checkAndHandle detects a conflict, a strategy other than 'manual'
\* is configured and resolve succeeds, the call invokes onConflictDetected and
\* then onConflictResolved (each hook that is set: once, with that conflict,
\* the second with the resolved content too), returns
\* {hasConflict: true, resolved, conflict} with resolved not null, and no
\* step of the call changes the queue.
C8_AutoResolved ==
    /\ []( ( /\ ret.op = "checkAndHandle"
             /\ DetectedBy(ret) # Null
             /\ autoResolveStrategy \notin {NoStrategy, "manual"} )
             => /\ ~Returned(ret)
                /\ mgr.pc = "await"
                /\ mgr.promise = resolve(DetectedBy(ret), autoResolveStrategy) )
    /\ [][ ( /\ mgr.pc = "await"
             /\ mgr.call = "checkAndHandle"
             /\ mgr.promise.ok
             /\ mgr' # mgr )
             => LET conflict == DetectedBy(ret')
                    resolved == mgr.promise.value
                IN /\ ret'.op = "checkAndHandle.resume"
                   /\ ret'.local = mgr.local
                   /\ ret'.remote = mgr.remote
                   /\ resolved # Null
                   /\ ret'.outcome = Ok([hasConflict |-> TRUE,
                                         resolved |-> resolved,
                                         conflict |-> conflict])
                   /\ HookCalls(ret', "onConflictDetected") =
                        IF onConflictDetected
                        THEN <<[hook |-> "onConflictDetected", args |-> <<conflict>>]>>
                        ELSE <<>>
                   /\ HookCalls(ret', "onConflictResolved") =
                        IF onConflictResolved
                        THEN <<[hook |-> "onConflictResolved",
                                args |-> <<conflict, resolved>>]>>
                        ELSE <<>>
                   /\ (onConflictDetected /\ onConflictResolved)
                        => ret'.hooks[1].hook = "onConflictDetected"
                   /\ conflictQueue' = conflictQueue ]_vars
    /\ [][ (ret'.op = "checkAndHandle" /\ ~Returned(ret'))
             => conflictQueue' = conflictQueue ]_vars

\* an auto-resolved call with both hooks set and a conflict on the queue
C8_Witness ==
    /\ ret.op = "checkAndHandle.resume"
    /\ ret.outcome.value.resolved # Null
    /\ Len(ret.hooks) = 2
    /\ autoResolveStrategy = "last-write-wins"
    /\ Len(conflictQueue) = 1

\* the checkAndHandle step r ends its call and asks for manual resolution
AsksManual(r) ==
    /\ IsCheckAndHandle(r)
    /\ Returned(r)
    /\ r.outcome.value.hasConflict
    /\ r.outcome.value.resolved = Null

\* C9: when checkAndHandle detects a conflict and no strategy is configured,
\* or the strategy is 'manual', or the strategy's resolve fails, the call
\* returns {hasConflict: true, resolved: null, conflict}, does not invoke
\* onConflictResolved, and appends that conflict to the queue once; every
\* other step of a checkAndHandle call leaves the queue as it was.
C9_ManualFallback ==
    /\ []( ( /\ ret.op = "checkAndHandle"
             /\ DetectedBy(ret) # Null
             /\ autoResolveStrategy \in {NoStrategy, "manual"} )
             => AsksManual(ret) )
    /\ [][ ( /\ mgr.pc = "await"
             /\ mgr.call = "checkAndHandle"
             /\ ~mgr.promise.ok
             /\ mgr' # mgr )
             => /\ AsksManual(ret')
                /\ ret'.op = "checkAndHandle.resume"
                /\ ret'.local = mgr.local
                /\ ret'.remote = mgr.remote ]_vars
    /\ []( AsksManual(ret)
             => /\ ret.outcome.value.conflict = DetectedBy(ret)
                /\ DetectedBy(ret) # Null
                /\ HookCalls(ret, "onConflictResolved") = <<>> )
    /\ [][ IsCheckAndHandle(ret')
             => IF AsksManual(ret')
                THEN /\ Len(conflictQueue') = Len(conflictQueue) + 1
                     /\ SubSeq(conflictQueue', 1, Len(conflictQueue)) = conflictQueue
                     /\ conflictQueue'[Len(conflictQueue')].conflict =
                          ret'.outcome.value.conflict
                ELSE conflictQueue' = conflictQueue ]_vars

\* resolve failed on an unknown strategy name and the conflict was queued
\* behind an earlier one, with the onConflictResolved hook set
C9_Witness ==
    /\ ret.op = "checkAndHandle.resume"
    /\ AsksManual(ret)
    /\ autoResolveStrategy = "no-such-strategy"
    /\ onConflictResolved
    /\ Len(conflictQueue) = 2

\* C10: ConflictManager.resolveManually for a queued id and a non-empty
\* content returns the content, invokes onConflictResolved (when set) once
\* with the item's conflict and the content, and takes that item, and no
\* other, out of the queue, the others keeping their order.
C10_ManualResolution ==
    /\ []( ( /\ ret.op = "resolveManually"
             /\ ret.content \notin {Str(<<>>), Null}
             /\ \E i \in 1..Len(conflictQueue) : conflictQueue[i].id = ret.id )
             => ~Returned(ret) /\ mgr.pc = "await" /\ mgr.promise.ok )
    /\ [][ ( /\ mgr.pc = "await"
             /\ mgr.call = "resolveManually"
             /\ mgr.promise.ok
             /\ mgr' # mgr )
             => /\ ret'.op = "resolveManually.resume"
                /\ ret'.outcome = Ok(mgr.content)
                /\ ret'.item.id = mgr.id
                /\ ret'.hooks =
                     IF onConflictResolved
                     THEN <<[hook |-> "onConflictResolved",
                             args |-> <<ret'.item.conflict, mgr.content>>]>>
                     ELSE <<>>
                /\ conflictQueue' =
                     SelectSeq(conflictQueue, LAMBDA item : item.sn # ret'.item.sn) ]_vars

\* C11: a failing manual resolution changes nothing. For an id no queued item
\* has, ConflictManager.resolveManually fails with ConflictNotFound at once;
\* for a queued id with an empty or absent content it fails with the
\* resolver's ContentRequired; in both cases no step of the call changes the
\* queue (the item found stays queued) and no hook is invoked.
C11_FailedManualResolution ==
    /\ []( (ret.op = "resolveManually" /\ ret.id \notin Ids(conflictQueue))
             => /\ ret.outcome = Err("ConflictNotFound")
                /\ ret.hooks = <<>>
                /\ mgr.pc = "idle" )
    /\ []( (ret.op = "resolveManually" /\ Returned(ret))
             => ret.id \notin Ids(conflictQueue) )
    /\ [][ ret'.op = "resolveManually" => conflictQueue' = conflictQueue ]_vars
    /\ [][ ( /\ mgr.pc = "await"
             /\ mgr.call = "resolveManually"
             /\ mgr.content \in {Str(<<>>), Null}
             /\ mgr' # mgr )
             => /\ ret'.op = "resolveManually.resume"
                /\ ret'.outcome = Err("ContentRequired")
                /\ ret'.hooks = <<>>
                /\ conflictQueue' = conflictQueue
                /\ \E i \in 1..Len(conflictQueue') : conflictQueue'[i] = mgr.item ]_vars

\* a call with no content failed with the hook set; both items are queued
C11_Witness ==
    /\ ret.op = "resolveManually.resume"
    /\ Rejected(ret)
    /\ ret.content = Null
    /\ onConflictResolved
    /\ Len(conflictQueue) = 2

-----------------------------------------------------------------------------
(* Claims about resolve and autoResolve *)

\* C12: resolve with the strategy 'manual', given as the argument or reached
\* through the resolver's default strategy, fails with
\* ManualResolutionRequired for every conflict, with or without a
\* commonAncestor; it returns no content and does not change the queue.
C12_ManualAlwaysFails ==
    /\ []( ( /\ ret.op = "resolve"
             /\ \/ ret.arg = "manual"
                \/ ret.arg = UndefinedArg /\ defaultStrategy = "manual" )
             => ret.outcome = Err("ManualResolutionRequired") )
    /\ [][ ret'.op = "resolve"
             => conflictQueue' = conflictQueue /\ resolving' = resolving ]_vars

\* a call without a strategy, on a resolver with the default 'manual' and a
\* queued conflict, for a conflict that has a commonAncestor
C12_Witness ==
    /\ ret.op = "resolve"
    /\ ret.arg = UndefinedArg
    /\ HasAncestor(ret.conflict)
    /\ Rejected(ret)
    /\ conflictQueue # <<>>

WellFormed(conflict) == conflict.localVersion # Null /\ conflict.remoteVersion # Null

\* a line of the text is one of the three markers
HasMarker(text) ==
    \E i \in 1..Len(split(text.chars)) :
        split(text.chars)[i] \in {LocalMarker, MiddleMarker, RemoteMarker}

\* C13: for a conflict with both versions, resolve with 'auto-merge' does not
\* fail and returns no marked-up text: with a commonAncestor whose three-way
\* merge succeeds it returns the merged text; when the merge fails, or there
\* is no commonAncestor, it returns the last-write-wins content, which is the
\* content of one of the two sides.
C13_AutoMergeNeverFails ==
    ( /\ ret.op = "resolve"
      /\ ret.arg = "auto-merge"
      /\ WellFormed(ret.conflict) )
      => LET l == ret.conflict.localVersion
             r == ret.conflict.remoteVersion
             lastWrite == IF l.timestamp > r.timestamp THEN l.content ELSE r.content
         IN /\ ReturnedOk(ret)
            /\ ~HasMarker(ret.outcome.value)
            /\ IF HasAncestor(ret.conflict)
               THEN LET m == threeWayMerge(ret.conflict.commonAncestor.content,
                                           l.content, r.content)
                    IN IF m.success THEN ret.outcome.value = m.merged
                       ELSE ret.outcome.value = lastWrite
               ELSE ret.outcome.value = lastWrite
            /\ ret.outcome.value = lastWrite
                 => ret.outcome.value \in {l.content, r.content}

\* the merge of a conflict with a commonAncestor failed and the later local
\* content was returned
C13_Witness ==
    /\ ret.op = "resolve"
    /\ ret.arg = "auto-merge"
    /\ HasAncestor(ret.conflict)
    /\ ~threeWayMerge(ret.conflict.commonAncestor.content,
                      ret.conflict.localVersion.content,
                      ret.conflict.remoteVersion.content).success
    /\ ret.outcome = Ok(ret.conflict.localVersion.content)
    /\ ret.conflict.localVersion.timestamp > ret.conflict.remoteVersion.timestamp

\* C14: for a conflict with both versions, autoResolve picks by strategy.
\* When the two timestamps differ, 'last-write-wins' returns the content of
\* the side with the larger timestamp and 'first-write-wins' that of the side
\* with the smaller one; 'local-wins' and 'remote-wins' return the local and
\* the remote content whatever the timestamps; 'merge-both' returns the
\* local content, the separator, then the remote content; any other
\* strategy fails with UnknownStrategy.
C14_AutoResolveByStrategy ==
    ( /\ ret.op = "autoResolve"
      /\ ret.arg # UndefinedArg
      /\ WellFormed(ret.conflict) )
      => LET l == ret.conflict.localVersion
             r == ret.conflict.remoteVersion
             later == IF l.timestamp > r.timestamp THEN l ELSE r
             earlier == IF l.timestamp < r.timestamp THEN l ELSE r
         IN /\ (ret.arg = "last-write-wins" /\ l.timestamp # r.timestamp)
                 => ret.outcome = Ok(later.content)
            /\ (ret.arg = "first-write-wins" /\ l.timestamp # r.timestamp)
                 => ret.outcome = Ok(earlier.content)
            /\ ret.arg = "local-wins" => ret.outcome = Ok(l.content)
            /\ ret.arg = "remote-wins" => ret.outcome = Ok(r.content)
            /\ ret.arg = "merge-both"
                 => ret.outcome =
                      Ok(Str(l.content.chars \o MergeSeparator \o r.content.chars))
            /\ ret.arg \notin {"last-write-wins", "first-write-wins", "local-wins",
                               "remote-wins", "merge-both"}
                 => ret.outcome = Err("UnknownStrategy")

\* 'first-write-wins' returned the remote content, the earlier of the two
C14_Witness ==
    /\ ret.op = "autoResolve"
    /\ ret.arg = "first-write-wins"
    /\ ret.conflict.localVersion # Null
    /\ ret.conflict.localVersion.timestamp > ret.conflict.remoteVersion.timestamp
    /\ ret.conflict.localVersion.content # ret.conflict.remoteVersion.content
    /\ ret.outcome = Ok(ret.conflict.remoteVersion.content)

-----------------------------------------------------------------------------
(* Claims about threeWayMerge *)

\* C15: the fast paths of threeWayMerge, in this order: local = remote gives
\* success with merged = local (so threeWayMerge(x, x, x) gives x); else
\* base = local gives success with merged = remote; else base = remote gives
\* success with merged = local; the result of a fast path has no conflicts
\* list.
C15_MergeFastPaths ==
    ret.op = "threeWayMerge"
      => /\ ret.local = ret.remote
              => ret.value = [success |-> TRUE, merged |-> ret.local]
         /\ (ret.local # ret.remote /\ ret.base = ret.local)
              => ret.value = [success |-> TRUE, merged |-> ret.remote]
         /\ (ret.local # ret.remote /\ ret.base # ret.local /\ ret.base = ret.remote)
              => ret.value = [success |-> TRUE, merged |-> ret.local]
         /\ (ret.base = ret.local /\ ret.local = ret.remote)
              => ret.value.merged = ret.base

\* local is the base and remote is another text of two lines
C15_Witness ==
    /\ ret.op = "threeWayMerge"
    /\ ret.base = ret.local
    /\ ret.local # ret.remote
    /\ Len(split(ret.remote.chars)) = 2
    /\ ret.value = [success |-> TRUE, merged |-> ret.remote]

Chosen(baseLine, localLine, remoteLine) ==
    IF localLine # baseLine THEN localLine
    ELSE IF remoteLine # baseLine THEN remoteLine
    ELSE baseLine

\* C16: when base, local and remote have the same number of lines and at
\* every index at most one of the local and the remote line differs from the
\* base line, threeWayMerge succeeds, gives no conflicts list, and the merged
\* text has at each index the line of the side that changed it, or the base
\* line when neither did.
C16_DisjointLineMerge ==
    ret.op = "threeWayMerge"
      => LET baseLines == split(ret.base.chars)
             localLines == split(ret.local.chars)
             remoteLines == split(ret.remote.chars)
             n == Len(baseLines)
         IN (/\ Len(localLines) = n
             /\ Len(remoteLines) = n
             /\ \A i \in 1..n : \/ localLines[i] = baseLines[i]
                                 \/ remoteLines[i] = baseLines[i])
              => ret.value =
                   [success |-> TRUE,
                    merged |-> Str(join([i \in 1..n |->
                        Chosen(baseLines[i], localLines[i], remoteLines[i])]))]

\* local changed the first of two lines and remote the second
C16_Witness ==
    /\ ret.op = "threeWayMerge"
    /\ ret.base = Str(<<120, 10, 120>>)
    /\ ret.local = Str(<<121, 10, 120>>)
    /\ ret.remote = Str(<<120, 10, 121>>)
    /\ ret.value = [success |-> TRUE, merged |-> Str(<<121, 10, 121>>)]

Max(a, b) == IF a > b THEN a ELSE b

\* the three lines at index idx (from 0) are the same line, a text that
\* has no line there counting as having the empty line
SameLineAt(baseLines, localLines, remoteLines, idx) ==
    /\ LineAt(localLines, idx) = LineAt(baseLines, idx)
    /\ LineAt(remoteLines, idx) = LineAt(baseLines, idx)

\* C17: when no fast path applies and, at the first line index where the
\* three texts are not all equal, the local line and the remote line both
\* differ from the base line (the same change on both sides included),
\* threeWayMerge gives success = false, at least one conflict region, and a
\* merged text that holds the lines '<<<<<<< LOCAL' and '>>>>>>> REMOTE'.
C17_ConflictingLineMerge ==
    ret.op = "threeWayMerge"
      => LET baseLines == split(ret.base.chars)
             localLines == split(ret.local.chars)
             remoteLines == split(ret.remote.chars)
             n == Max(Len(baseLines), Max(Len(localLines), Len(remoteLines)))
             mergedLines == split(ret.value.merged.chars)
         IN (/\ ret.local # ret.remote
             /\ ret.base # ret.local
             /\ ret.base # ret.remote
             /\ \E idx \in 0..(n - 1) :
                  /\ \A before \in 0..(idx - 1) :
                        SameLineAt(baseLines, localLines, remoteLines, before)
                  /\ LineAt(localLines, idx) # LineAt(baseLines, idx)
                  /\ LineAt(remoteLines, idx) # LineAt(baseLines, idx))
              => /\ ret.value.success = FALSE
                 /\ "conflicts" \in DOMAIN ret.value
                 /\ Len(ret.value.conflicts) >= 1
                 /\ \E k \in 1..Len(mergedLines) : mergedLines[k] = LocalMarker
                 /\ \E k \in 1..Len(mergedLines) : mergedLines[k] = RemoteMarker

\* local and remote made the same change to the first line and differ in
\* the second
C17_Witness ==
    /\ ret.op = "threeWayMerge"
    /\ ret.base = Str(<<120, 10, 120>>)
    /\ ret.local = Str(<<121, 10, 120>>)
    /\ ret.remote = Str(<<121, 10, 121>>)
    /\ ret.value.success = FALSE
    /\ Len(ret.value.conflicts) = 1

\* the indices (from 1) of the lines that are the given line
LinesThatAre(lines, line) == {k \in 1..Len(lines) : lines[k] = line}

\* the region spans a hunk of the merged text, whose lines holding the
\* three markers are given: its startLine holds '<<<<<<< LOCAL', its endLine
\* '>>>>>>> REMOTE' (both count from 0), and '=======' lies between them
SpansHunk(region, locals, middles, remotes) ==
    /\ region.startLine + 1 \in locals
    /\ region.endLine + 1 \in remotes
    /\ \E k \in middles : region.startLine + 1 < k /\ k < region.endLine + 1

\* C18: every result of threeWayMerge has merged; success is true exactly
\* when no conflict region was recorded; conflicts is there only with
\* success = false and is then not empty, with one region for each hunk
\* bracketed by the markers in merged (the texts given hold no marker line).
C18_MergeResultShape ==
    ret.op = "threeWayMerge"
      => LET value == ret.value
             merged == split(value.merged.chars)
             locals == LinesThatAre(merged, LocalMarker)
             middles == LinesThatAre(merged, MiddleMarker)
             remotes == LinesThatAre(merged, RemoteMarker)
         IN /\ "merged" \in DOMAIN value
            /\ value.success \in BOOLEAN
            /\ value.success = TRUE
                 => /\ DOMAIN value = {"success", "merged"}
                    /\ locals = {}
                    /\ remotes = {}
            /\ value.success = FALSE
                 => /\ DOMAIN value = {"success", "merged", "conflicts"}
                    /\ Len(value.conflicts) >= 1
                    /\ Len(value.conflicts) = Cardinality(locals)
                    /\ Len(value.conflicts) = Cardinality(remotes)
                    /\ \A r \in 1..Len(value.conflicts) :
                          SpansHunk(value.conflicts[r], locals, middles, remotes)
                    /\ \A r, q \in 1..Len(value.conflicts) :
                          r < q => value.conflicts[r].endLine
                                     < value.conflicts[q].startLine

\* a merge that recorded two regions
C18_Witness ==
    /\ ret.op = "threeWayMerge"
    /\ ret.value.success = FALSE
    /\ Len(ret.value.conflicts) = 2
    /\ Cardinality(LinesThatAre(split(ret.value.merged.chars), LocalMarker)) = 2

-----------------------------------------------------------------------------
(* Claims about StorageManager *)

\* the step ends an initialize call that went past the first test
EndsInitialize ==
    /\ Len(inFlight') < Len(inFlight)
    /\ ret'.op = "initialize.resume"
    /\ Returned(ret')

\* the call of a method of a backend that gave an outcome
Gave(backend, method, gave) ==
    [backend |-> backend.class, method |-> method, gave |-> gave]

\* the calls that show a backend to be usable, or not
Usable(backend) ==
    {<<Gave(backend, "isAvailable", "true"), Gave(backend, "initialize", "resolved")>>}
Unusable(backend) ==
    {<<Gave(backend, "isAvailable", gave)>> :
        gave \in AvailableOutcomes(backend) \ {"true"}}
    \cup {<<Gave(backend, "isAvailable", "true"),
            Gave(backend, "initialize", "rejected")>>}

\* C19: an initialize call that goes past its first test probes
\* IndexedDBStorage first; when that is available and its initialize
\* resolves, it becomes the storage and nothing else is called; when it is
\* unavailable or its initialize rejects, LocalStorageAdapter is probed, once,
\* and becomes the storage when usable; otherwise the call throws 'No storage
\* mechanism available' and leaves storage, storageType and isInitialized as
\* they were (null, null and false on a manager not initialized). No
\* method of a backend is called twice in one initialize call.
C19_OneDowngrade ==
    [][EndsInitialize =>
        LET log == ret'.log
        IN /\ \A i, j \in 1..Len(log) :
                 (log[i].backend = log[j].backend /\ log[i].method = log[j].method)
                   => i = j
           /\ \/ /\ log \in Usable(IndexedDBStorage)
                 /\ ret'.outcome = Void
                 /\ storage' = IndexedDBStorage
                 /\ storageType' = "IndexedDB"
                 /\ isInitialized' = TRUE
              \/ /\ \E first \in Unusable(IndexedDBStorage),
                        second \in Usable(LocalStorageAdapter) : log = first \o second
                 /\ ret'.outcome = Void
                 /\ storage' = LocalStorageAdapter
                 /\ storageType' = "LocalStorage"
                 /\ isInitialized' = TRUE
              \/ /\ \E first \in Unusable(IndexedDBStorage),
                        second \in Unusable(LocalStorageAdapter) : log = first \o second
                 /\ ret'.outcome = Err(NoStorageMechanism)
                 /\ UNCHANGED <<storage, storageType, isInitialized>>
                 /\ (storage = Null /\ ~isInitialized)
                      => (storage' = Null /\ ~isInitialized')]_vars

\* on a manager that is not initialized, an initialize call has thrown after
\* indexedDB.initialize() and localStorage.initialize() both rejected
C19_Witness ==
    /\ ret.op = "initialize.resume"
    /\ Returned(ret)
    /\ ret.outcome = Err(NoStorageMechanism)
    /\ Len(ret.log) = 4
    /\ storage = Null
    /\ storageType = NoStorageType
    /\ ~isInitialized
    /\ inFlight = <<>>

\* the step is a call of a proxied operation or of migrateData
CallsOperation == ret'.op \in ProxiedOperations \cup {"migrateData"}

\* the manager is not initialized: no initialize call has succeeded yet, or
\* the last one failed, or close has gone through since
Uninitialized == storage = Null /\ ~isInitialized

\* C20: a proxied operation or migrateData called on a manager that is not
\* initialized is rejected with the not-initialized error and calls no
\* backend, and the manager is in that state from its construction until an
\* initialize call succeeds and again once a close call has gone through; on
\* an initialized manager a proxied operation is handed on to the storage,
\* and migrateData, given a target, reads through the storage once the
\* target is initialized.
C20_NotInitializedGate ==
    /\ Uninitialized
    /\ [][/\ (CallsOperation /\ ~EnsureInitialized)
                => /\ Returned(ret')
                   /\ ret'.outcome = Err(NotInitialized)
                   /\ ret'.log = <<>>
                   /\ UNCHANGED stoVars
          /\ (Uninitialized /\ ~Uninitialized')
                => /\ EndsInitialize
                   /\ ret'.outcome = Void
                   /\ EnsureInitialized'
          /\ (ret'.op = "close.resume" /\ ReturnedOk(ret')) => Uninitialized'
          /\ (ret'.op = "close" /\ ReturnedOk(ret')) => Uninitialized'
          /\ (ret'.op \in ProxiedOperations /\ EnsureInitialized)
                => /\ ~Returned(ret')
                   /\ ret'.forwarded = storage
                   /\ ret'.log = <<Called(storage, ret'.op)>>
                   /\ UNCHANGED stoVars
          /\ (ret'.op = "migrateData" /\ EnsureInitialized /\ ret'.target # Null)
                => /\ ~Returned(ret')
                   /\ Len(inFlight') = Len(inFlight) + 1
          /\ (/\ ret'.op = "migrateData.resume"
              /\ EnsureInitialized
              /\ Len(inFlight') = Len(inFlight)
              /\ \E k \in 1..Len(inFlight) :
                    /\ inFlight[k].pc = "targetStorage.initialize"
                    /\ inFlight'[k].pc # "targetStorage.initialize")
                => \E k \in 1..Len(inFlight) :
                      /\ inFlight'[k].pc = "listNotebooks"
                      /\ inFlight'[k].log[Len(inFlight'[k].log)]
                           = Called(storage, "listNotebooks")
         ]_vars

\* saveNote is rejected on a manager that a close call has left without
\* storage while a migrateData call that had read from the storage is
\* still suspended
C20_Witness ==
    /\ ret.op = "saveNote"
    /\ Rejected(ret)
    /\ ret.outcome = Err(NotInitialized)
    /\ Uninitialized
    /\ Len(inFlight) = 1
    /\ inFlight[1].op = "migrateData"
    /\ inFlight[1].pc = "listNotebooks"

-----------------------------------------------------------------------------
(* Claims about IndexedDBStorage: notes *)

\* the version stored for a note id, 0 when the id is not stored
StoredVersion(d, noteId) ==
    IF Get(d.notes, noteId) = Undefined THEN 0 ELSE Get(d.notes, noteId).version

\* C24: every completed saveNote leaves the stored version of the note
\* exactly one above the version stored for that id just before the call
\* (1 for a new note), whatever version the caller passes.
C24_SaveNoteIncrementsStoredVersion ==
    [][(ret'.op = "saveNote" /\ ReturnedOk(ret'))
        => StoredVersion(db', ret'.noteId) = StoredVersion(db, ret'.noteId) + 1]_vars

\* a value getNote gave that is a note
IsNote(v) == v # Null /\ v # Undefined

\* C26: getNote never gives a note stored under another notebook than the
\* one asked for: for such a note it gives none.
C26_GetNoteStaysInNotebook ==
    ret.op = "getNote" =>
        LET given == ret.outcome.value
            stored == Get(db.notes, ret.noteId)
        IN /\ IsNote(given) => given.notebookId = ret.notebookId
           /\ (IsNote(stored) /\ stored.notebookId # ret.notebookId)
                => given = Null

C26_Witness ==
    /\ ret.op = "getNote"
    /\ ret.outcome.value = Null
    /\ IsNote(Get(db.notes, ret.noteId))
    /\ Get(db.notes, ret.noteId).notebookId # ret.notebookId

\* the note is not stored, or is stored under another notebook
NotInNotebook(d, notebookId, noteId) ==
    \/ Get(d.notes, noteId) = Undefined
    \/ Get(d.notes, noteId).notebookId # notebookId

\* C29: deleteNote rejects with the not-found error when the note is not
\* stored or is stored under another notebook, leaving every store as it
\* was; when it resolves, the note and every history entry of its id are
\* gone and nothing else has changed.
C29_DeleteNoteNotFoundOrGone ==
    [][/\ ret'.op = "deleteNote"
            => /\ db' = db
               /\ NotInNotebook(db, ret'.notebookId, ret'.noteId)
                    <=> (Rejected(ret') /\ ret'.outcome = Err(NoteNotFound))
       /\ (ret'.op = "deleteNote.resume" /\ ReturnedOk(ret'))
            => /\ db'.notes = {n \in db.notes : n.id # ret'.noteId}
               /\ db'.history = {h \in db.history : h.noteId # ret'.noteId}
               /\ db'.notebooks = db.notebooks
               /\ db'.pendingOps = db.pendingOps]_vars

C29_Witness ==
    /\ ret.op = "deleteNote.resume"
    /\ ReturnedOk(ret)
    /\ Cardinality(db.history) = 1
    /\ db.notes # {}

-----------------------------------------------------------------------------
(* Claims about IndexedDBStorage: notebooks and cascading deletes *)

\* C25: once a notebook id is stored, every later completed saveNotebook of
\* that id, with a createdAt field or without, leaves the stored createdAt
\* as it was and sets updatedAt to the time of the save.
C25_SaveNotebookKeepsCreatedAt ==
    [][(/\ ret'.op = "saveNotebook"
        /\ ReturnedOk(ret')
        /\ Get(db.notebooks, ret'.id) # Undefined)
        => /\ Get(db'.notebooks, ret'.id).createdAt
                = Get(db.notebooks, ret'.id).createdAt
           /\ Get(db'.notebooks, ret'.id).updatedAt = now']_vars

\* the stores without a notebook, its notes, their history and its pending
\* operations
WithoutNotebook(d, id) ==
    LET gone == {n.id : n \in {m \in d.notes : m.notebookId = id}}
    IN [notebooks |-> {b \in d.notebooks : b.id # id},
        notes |-> {n \in d.notes : n.notebookId # id},
        history |-> {h \in d.history : h.noteId \notin gone},
        pendingOps |-> {o \in d.pendingOps : o.notebookId # id}]

\* C27: once deleteNotebook(id) resolves the stores hold no notebook id, no
\* note of that notebook, no history entry of those notes and no pending
\* operation of that notebook, and what belongs to other notebooks is as
\* before.
C27_DeleteNotebookCascades ==
    [][(ret'.op = "deleteNotebook.resume" /\ ReturnedOk(ret'))
        => /\ \A b \in db'.notebooks : b.id # ret'.id
           /\ \A n \in db'.notes : n.notebookId # ret'.id
           /\ \A h \in db'.history :
                \A n \in db.notes : n.notebookId = ret'.id => h.noteId # n.id
           /\ \A o \in db'.pendingOps : o.notebookId # ret'.id
           /\ db' = WithoutNotebook(db, ret'.id)]_vars

C27_Witness ==
    /\ ret.op = "deleteNotebook.resume"
    /\ ReturnedOk(ret)
    /\ Cardinality(db.notebooks) = 1
    /\ Cardinality(db.notes) = 1
    /\ Cardinality(db.history) = 1
    /\ Cardinality(db.pendingOps) = 1

\* the steps of deleteNotebook and deleteNote
DeleteSteps ==
    {"deleteNotebook", "deleteNotebook.notesRequest",
     "deleteNotebook.historyRequest", "deleteNotebook.opsRequest",
     "deleteNotebook.resume", "deleteNote", "deleteNote.transaction",
     "deleteNote.historyRequest", "deleteNote.resume"}

\* the stores without a note and its history
WithoutNote(d, noteId) ==
    [d EXCEPT !.notes = {n \in @ : n.id # noteId},
              !.history = {h \in @ : h.noteId # noteId}]

\* C28: a cascading delete is one change of the stored data: no step of
\* deleteNotebook or deleteNote leaves the stores where a reader finds the
\* parent gone and some of its notes, history or pending operations still
\* there, or the reverse, and a cascade that fails changes nothing.
C28_CascadeIsAtomic ==
    [][ret'.op \in DeleteSteps
        => /\ \/ db' = db
              \/ /\ ret'.op = "deleteNotebook.resume"
                 /\ ReturnedOk(ret')
                 /\ db' = WithoutNotebook(db, ret'.id)
              \/ /\ ret'.op = "deleteNote.resume"
                 /\ ReturnedOk(ret')
                 /\ db' = WithoutNote(db, ret'.noteId)
           /\ Rejected(ret') => db' = db]_vars

\* a deleteNotebook transaction has deleted the notebook's notes and not yet
\* their history, and none of it is stored
C28_Witness ==
    \E k \in 1..Len(idb) :
        /\ Open(idb[k])
        /\ idb[k].op = "deleteNotebook"
        /\ idb[k].pc = "historyRequest"
        /\ idb[k].view.notes # db.notes
        /\ idb[k].view.history = db.history
        /\ db.history # {}

-----------------------------------------------------------------------------
(* Claims about IndexedDBStorage: history *)

\* the history entries stored for a note
HistoryOf(d, noteId) == {h \in d.history : h.noteId = noteId}

\* C30: after every completed saveHistory(noteId, entry) at most
\* maxHistoryPerNote entries are stored for noteId, and no entry that was
\* purged is newer than one that remains, whatever timestamps the callers
\* gave.
C30_HistoryCap ==
    [][(ret'.op = "saveHistory.resume" /\ ReturnedOk(ret'))
        => LET kept == HistoryOf(db', ret'.noteId)
               purged == HistoryOf(db, ret'.noteId) \ kept
           IN /\ Cardinality(kept) <= MaxHistory
              /\ kept \subseteq HistoryOf(db, ret'.noteId)
              /\ \A old \in purged, h \in kept :
                    old.timestamp <= h.timestamp]_vars

-----------------------------------------------------------------------------
(* Claims about migrateData *)

\* C21: after migrateData resolves, every notebook, note, history entry and
\* pending operation of the source is read from the target with the field
\* values it has in the source, each note's version and updatedAt and each
\* notebook's updatedAt among them.
C21_MigrationFidelity ==
    (ret.op = "migrateData.resume" /\ ReturnedOk(ret))
        => /\ \A b \in db.notebooks : getNotebook(targetDb, b.id) = b
           /\ \A n \in db.notes : getNote(targetDb, n.notebookId, n.id) = n
           /\ \A h \in db.history : Get(targetDb.history, h.id) = h
           /\ \A o \in db.pendingOps : Get(targetDb.pendingOps, o.id) = o

\* C22: for a source of N notebooks with M notes each, H history entries
\* for each note and P pending operations, migrateData resolves with
\* { notebooks: N, notes: N*M, history: N*M*H, operations: P }, for H above
\* the default limit of getHistory too.
C22_MigrationCounts ==
    (ret.op = "migrateData.resume" /\ ReturnedOk(ret))
        => \E shape \in Shapes :
            /\ db = Source(shape)
            /\ ret.outcome.value =
                [notebooks |-> shape[1],
                 notes |-> shape[1] * shape[2],
                 history |-> shape[1] * shape[2] * shape[3],
                 operations |-> shape[4]]

\* the calls migrateData has made so far, or made in all once it has ended
MigrateLog(m, r) ==
    IF m.pc # "idle" THEN m.log
    ELSE IF "log" \in DOMAIN r THEN r.log ELSE <<>>

\* the positions of a log with a call to the target of one of the names
Writes(log, names) ==
    {i \in 1..Len(log) : log[i].on = "target" /\ log[i].call \in names}

\* the writes to the target come notebook, its notes, each followed by its
\* history, and the pending operations last, after the target's initialize
OrderedCopy(d, log) ==
    /\ log # <<>> => log[1] = On("target", "initialize", NoId)
    /\ \A j \in Writes(log, {"saveNote"}) :
        \E i \in Writes(log, {"saveNotebook"}) :
            /\ i < j
            /\ Get(d.notes, log[j].id).notebookId = log[i].id
            /\ \A k \in Writes(log, {"saveNotebook"}) : ~(i < k /\ k < j)
    /\ \A j \in Writes(log, {"saveHistory"}) :
        \E i \in Writes(log, {"saveNote"}) :
            /\ i < j
            /\ Get(d.history, log[j].id).noteId = log[i].id
            /\ \A k \in Writes(log, {"saveNote", "saveNotebook"}) :
                ~(i < k /\ k < j)
    /\ \A i \in Writes(log, {"enqueueOperation"}) :
        \A j \in (i + 1)..Len(log) : log[j].call = "enqueueOperation"

\* every notebook and every pending operation of the source was written
WholeCopy(d, log) ==
    /\ {log[i].id : i \in Writes(log, {"saveNotebook"})}
            = {b.id : b \in d.notebooks}
    /\ {log[i].id : i \in Writes(log, {"saveNote"})} = {n.id : n \in d.notes}
    /\ {log[i].id : i \in Writes(log, {"enqueueOperation"})}
            = {o.id : o \in d.pendingOps}

\* C23: migrateData initializes the target before it reads, writes each
\* notebook, then its notes, each note followed by its history, and the
\* pending operations last, and no step of it changes the notebooks, notes,
\* history or pending operations of the source, whether it resolves or
\* fails part-way.
C23_OrderedNonDestructiveCopy ==
    [][(mig.pc # "idle" \/ mig'.pc # "idle")
        => /\ db' = db
           /\ OrderedCopy(db, MigrateLog(mig', ret'))
           /\ ReturnedOk(ret') => WholeCopy(db, ret'.log)]_vars

\* a migration that failed after notes were written to the target, the
\* source still holding its pending operations
C23_Witness ==
    /\ ret.op = "migrateData.resume"
    /\ Rejected(ret)
    /\ targetDb.notes # {}
    /\ targetDb.pendingOps = {}
    /\ db.pendingOps # {}
    /\ \E shape \in Shapes : db = Source(shape)

\* C31: cleanupHistory(noteId, keepCount) deletes the entries of noteId
\* beyond its keepCount newest and no other, resolves with the number it
\* deleted, max(0, count - keepCount), and a second call at once with the
\* same arguments deletes nothing and resolves with 0.
C31_CleanupHistoryExact ==
    [][(ret'.op = "cleanupHistory" /\ ReturnedOk(ret'))
        => LET before == HistoryOf(db, ret'.noteId)
               kept == HistoryOf(db', ret'.noteId)
           IN /\ kept \subseteq before
              /\ Cardinality(kept) = Min(Cardinality(before), ret'.keepCount)
              /\ \A old \in before \ kept, h \in kept :
                    old.timestamp <= h.timestamp
              /\ ret'.outcome.value
                    = Max(0, Cardinality(before) - ret'.keepCount)
              /\ db'.history \ kept = db.history \ before
              /\ \A t \in Readings(now') :
                    cleanupHistory(db', ret'.noteId, ret'.keepCount, t)
                        = Result(db', Ok(0))]_vars

-----------------------------------------------------------------------------
(* Further claims about the conflict engine *)

\* the versioned contents checkAndHandle has built that are still held: in
\* the queue, and in what the last step of a call handed back
BuiltVersions ==
    UNION {{conflictQueue[i].conflict.localVersion,
            conflictQueue[i].conflict.remoteVersion} :
                i \in 1..Len(conflictQueue)}
    \cup (IF IsCheckAndHandle(ret) THEN {ret.local, ret.remote} ELSE {})
    \cup (IF IsCheckAndHandle(ret) /\ ReturnedOk(ret)
             /\ ret.outcome.value.conflict # Null
          THEN {ret.outcome.value.conflict.localVersion,
                ret.outcome.value.conflict.remoteVersion}
          ELSE {})

\* C32: every VersionedContent checkAndHandle builds, in a returned
\* ConflictInfo or in the queue, has hash = hashContent(content), so two of
\* them with the same content have the same hash whatever their version,
\* timestamp and deviceId.
C32_HashIsOfContent ==
    /\ \A v \in BuiltVersions : v.hash = hashContent(v.content)
    /\ \A v, w \in BuiltVersions : v.content = w.content => v.hash = w.hash

\* two queued conflicts, and a call that returned one whose sides have the
\* same content as sides of other versions and differ from them otherwise
C32_Witness ==
    /\ Len(conflictQueue) = 2
    /\ IsCheckAndHandle(ret)
    /\ ReturnedOk(ret)
    /\ ret.outcome.value.conflict # Null
    /\ \E v, w \in BuiltVersions :
        v.content = w.content /\ v.timestamp # w.timestamp

\* the positions of a queue whose item has another id than the one given
Others(queue, id) == {i \in 1..Len(queue) : queue[i].id # id}

\* the n-th smallest of a set of positions
Nth(positions, n) ==
    CHOOSE i \in positions : Cardinality({k \in positions : k < i}) = n - 1

\* C33: removeConflict(id) takes the items with that id off the queue and
\* no other, the remaining items keep their order, and for an id no item has
\* the queue stays as it is and no error is raised.
C33_RemoveConflictExact ==
    [][ret'.op = "removeConflict"
        => /\ ~Rejected(ret')
           /\ Len(conflictQueue')
                = Cardinality(Others(conflictQueue, ret'.id))
           /\ \A n \in 1..Len(conflictQueue') :
                conflictQueue'[n]
                    = conflictQueue[Nth(Others(conflictQueue, ret'.id), n)]
           /\ ret'.id \notin Ids(conflictQueue)
                => conflictQueue' = conflictQueue]_vars

\* the second of three queued conflicts was removed
C33_Witness ==
    /\ ret.op = "removeConflict"
    /\ ret.id # UnknownId
    /\ Len(conflictQueue) = 2
    /\ conflictQueue[1].sn = 1
    /\ conflictQueue[2].sn = 3

\* the serial numbers of the queued items
Queued(queue) == {queue[i].sn : i \in 1..Len(queue)}

\* C34: whatever other calls change the queue while resolveAll is suspended,
\* a step of resolveAll takes no item off the queue but the one it has just
\* attempted: a failed attempt drops no item that was not attempted.
C34_ResolveAllRemovesOnlyAttempted ==
    [][(ra.pc = "await" /\ ret'.op = "resolveAll.resume")
        => Queued(conflictQueue) \ Queued(conflictQueue') \subseteq {ra.item.sn}]_vars

\* C35: under any interleaving of resolveManually, resolveAllConflicts and
\* checkAndHandle on one manager, the resolution of a queue item reaches a
\* caller at most once: no item is both behind a result of resolveAll and
\* returned by resolveManually, and none is handed to the hook twice.
C35_ResolvedAtMostOnce ==
    \A i, j \in 1..Len(reported.log) :
        reported.log[i].sn = reported.log[j].sn => i = j

\* C36: the busy flag of the resolver is up exactly while a resolveAll call
\* is between its start and its return; every call that passed the busy
\* check does return, with the flag down, whatever items failed; and a
\* resolveAll made when no call is running is never rejected.
C36_BusyFlagBracketsResolveAll ==
    /\ [](resolving <=> ra.pc = "await")
    /\ resolving ~> (~resolving /\ ra.pc = "idle" /\ ret.op = "resolveAll.resume")
    /\ [][(ra.pc = "idle" /\ ret'.op = "resolveAll") => ~Rejected(ret')]_vars
    /\ [][(ret'.op = "resolveAll.resume" /\ ReturnedOk(ret')) => ~resolving']_vars

\* a call has returned with the flag down although every item it tried failed
C36_Witness ==
    /\ ret.op = "resolveAll.resume"
    /\ ReturnedOk(ret)
    /\ ret.outcome.value = <<>>
    /\ enqueued >= 2
    /\ ~resolving

-----------------------------------------------------------------------------
(* Further claims about the merge, the storage manager and the notes *)

\* the scan of _mergeLines over the lines of three texts, cut off after as
\* many iterations as the texts have lines
ScanOf(base, local, remote) ==
    LET baseLines == split(base.chars)
        localLines == split(local.chars)
        remoteLines == split(remote.chars)
    IN MergeScan([baseIdx |-> 0, localIdx |-> 0, remoteIdx |-> 0,
                  merged |-> <<>>, conflicts |-> <<>>],
                 baseLines, localLines, remoteLines,
                 Len(baseLines) + Len(localLines) + Len(remoteLines))

\* an iteration moved a pointer that was still within its text
Advanced(before, after, baseLines, localLines, remoteLines) ==
    \/ before.baseIdx < Len(baseLines) /\ after.baseIdx > before.baseIdx
    \/ before.localIdx < Len(localLines) /\ after.localIdx > before.localIdx
    \/ before.remoteIdx < Len(remoteLines) /\ after.remoteIdx > before.remoteIdx

\* C37: the line scan of threeWayMerge ends for all texts: every iteration
\* of _mergeLines moves a pointer that is still within its text, also when
\* one or two texts are used up and when it collects a conflict, and the loop
\* is over after at most |base| + |local| + |remote| iterations.
C37_MergeScanTerminates ==
    ret.op = "threeWayMerge"
        => LET baseLines == split(ret.base.chars)
               localLines == split(ret.local.chars)
               remoteLines == split(ret.remote.chars)
               scan == ScanOf(ret.base, ret.local, ret.remote)
           IN /\ ~MergeMore(scan[Len(scan)], baseLines, localLines, remoteLines)
              /\ Len(scan) - 1 <= Len(baseLines) + Len(localLines) + Len(remoteLines)
              /\ \A i \in 1..(Len(scan) - 1) :
                    Advanced(scan[i], scan[i + 1], baseLines, localLines, remoteLines)
              /\ scan[Len(scan)] = MergeLoop(scan[1], baseLines, localLines, remoteLines)

\* a scan that collects a conflict after the base text is used up
C37_Witness ==
    /\ ret.op = "threeWayMerge"
    /\ ~ret.value.success
    /\ LET scan == ScanOf(ret.base, ret.local, ret.remote)
       IN \E i \in 1..(Len(scan) - 1) :
             /\ scan[i].baseIdx >= Len(split(ret.base.chars))
             /\ Len(scan[i + 1].conflicts) > Len(scan[i].conflicts)

\* C38: for a conflict with both versions, when the local and the remote
\* timestamp are equal autoResolve returns the remote content under
\* 'last-write-wins' and under 'first-write-wins'; when they differ one of
\* the two strategies returns the local and the other the remote content.
C38_TimestampTieGoesRemote ==
    (ret.op = "autoResolve" /\ WellFormed(ret.conflict))
      => LET l == ret.conflict.localVersion
             r == ret.conflict.remoteVersion
             last == autoResolve(ret.conflict, "last-write-wins")
             first == autoResolve(ret.conflict, "first-write-wins")
         IN /\ l.timestamp = r.timestamp
                 => last = Ok(r.content) /\ first = Ok(r.content)
            /\ l.timestamp # r.timestamp
                 => \/ last = Ok(l.content) /\ first = Ok(r.content)
                    \/ last = Ok(r.content) /\ first = Ok(l.content)
            /\ DefaultArg(ret.arg, "last-write-wins") = "last-write-wins"
                 => ret.outcome = last
            /\ ret.arg = "first-write-wins" => ret.outcome = first

\* 'last-write-wins' returned the remote content of two versions with the
\* same timestamp and different contents
C38_Witness ==
    /\ ret.op = "autoResolve"
    /\ ret.arg = "last-write-wins"
    /\ WellFormed(ret.conflict)
    /\ ret.conflict.localVersion.timestamp = ret.conflict.remoteVersion.timestamp
    /\ ret.conflict.localVersion.content # ret.conflict.remoteVersion.content
    /\ ret.outcome = Ok(ret.conflict.remoteVersion.content)

\* C39: whenever a StorageManager call is suspended or has returned,
\* isInitialized is true exactly when a backend is set, and storageType is
\* 'IndexedDB' or 'LocalStorage' after the backend that is set, null with
\* none; initialize on an initialized manager returns at once, probing no
\* backend and leaving the manager as it is; a close call that returns leaves
\* the manager as constructed, where initialize probes the backends again.
C39_StorageManagerState ==
    /\ [](isInitialized <=> storage # Null)
    /\ [](/\ storage = Null <=> storageType = NoStorageType
          /\ storage = IndexedDBStorage <=> storageType = "IndexedDB"
          /\ storage = LocalStorageAdapter <=> storageType = "LocalStorage")
    /\ [][/\ (ret'.op = "initialize" /\ isInitialized)
                => /\ ret'.outcome = Void
                   /\ ret'.log = <<>>
                   /\ UNCHANGED stoVars
          /\ (ret'.op = "initialize" /\ ~isInitialized)
                => /\ ~Returned(ret')
                   /\ Len(inFlight') = Len(inFlight) + 1
                   /\ inFlight'[Len(inFlight')].log
                        = <<Called(IndexedDBStorage, "isAvailable")>>
          /\ (ret'.op \in {"close", "close.resume"} /\ ReturnedOk(ret'))
                => /\ storage' = Null
                   /\ storageType' = NoStorageType
                   /\ ~isInitialized'
         ]_vars

\* a close call has gone through on a manager that had a backend, and no
\* other call is suspended
C39_Witness ==
    /\ ret.op = "close.resume"
    /\ ReturnedOk(ret)
    /\ storage = Null
    /\ storageType = NoStorageType
    /\ ~isInitialized
    /\ inFlight = <<>>

\* what getNote gave, with `undefined` and null both read as no note
NoteGiven(v) == IF IsNote(v) THEN v ELSE Null

\* C40: saveNote(notebookB, note) changes nothing of what getNote and
\* listNotes give for another notebook A: a note of the same id stored under
\* A is still given through A, with its content.
C40_SaveNoteStaysInNotebook ==
    [][(ret'.op = "saveNote" /\ ReturnedOk(ret'))
        => LET notebookB == Get(db'.notes, ret'.noteId).notebookId
           IN \A notebookA \in NotebookIds \ {notebookB} :
                 /\ listNotes(db', notebookA) = listNotes(db, notebookA)
                 /\ \A noteId \in NoteIds :
                       NoteGiven(getNote(db', notebookA, noteId))
                         = NoteGiven(getNote(db, notebookA, noteId))
      ]_vars

====
